---- MODULE Spec2Model ----
(***************************************************************************)
(* A model of the test-session glue of the automation suite:               *)
(*   - conftest.py: the browser / context / page fixtures and the          *)
(*     pytest_runtest_makereport failure hook (the second definition of    *)
(*     the hook rebinds the module attribute, so it is the one pytest      *)
(*     registers);                                                         *)
(*   - utils/test_data.py: save_credentials / load_credentials.            *)
(* pytest runs one test at a time: setup (fixtures in dependency order),   *)
(* the setup report, the call, the call report, teardown (finalizers in    *)
(* reverse order, each one run even when an earlier one raised), the       *)
(* teardown report.  Every report goes through the hook.                   *)
(***************************************************************************)
EXTENDS Integers, Sequences, FiniteSets, TLC

\* ------------------------------------------------------------- bounds
NumTests == 2      \* tests collected in one session
MaxClock == 1      \* seconds the wall clock may advance during the session
MaxStrLen == 1     \* characters in an email or a password
MaxEnvSet == 1     \* environment variables set when the process starts
MaxCalls == 3      \* calls of ensure_directories in one process
MaxApiRuns == 2    \* API tests run in one session

\* ---------------------------------------------------------- constants
\* settings.browsers with no BROWSERS variable set: "chromium,firefox".split(",")
SettingsBrowsers == <<"chromium", "firefox">>

Range(s) == {s[i] : i \in DOMAIN s}

\* item.name of the collected tests; tests of different modules may carry the
\* same name.
ItemNames == {"test_login", "test_register"}

VARIABLES
    pc,           \* position of the runner in the session
    cur,          \* number of tests started; the running test when pc # "idle"
    item,         \* the running test: [kind, extra, name]
    hasHtml,      \* hasattr(item.config, "_html"): a report plugin is loaded
    browserState, \* "none" | "launched" | "failed" | "closed"
    browserEngine,\* engine of the launched browser, "" when none
    launches,     \* launch attempts per engine name
    browserErrors,\* tests whose request for the browser fixture raised
    ctxOf,        \* test -> id of the context its fixture created, 0 when none
    pageOf,       \* test -> id of the page its fixture created, 0 when none
    ctxCount,     \* contexts created so far (ids are 1..ctxCount)
    pageCount,    \* pages created so far
    pageCtx,      \* page id -> id of the context it was created in
    ctxOpen,      \* ids of the open contexts
    pageOpen,     \* ids of the open pages
    cookies,      \* context id -> tests whose actions stored state in its jar
    events,       \* the fixture events of the running test, in order
    finalizers,   \* fixtures of the running test that yielded, innermost last
    tdRaised,     \* a finalizer of the running test raised
    callOutcome,  \* outcome of the running test's body, "none" before it ended
    report,       \* the report the hook is looking at
    reportBefore, \* the same report as the wrapped hook implementations made it
    hookPc,       \* position inside pytest_runtest_makereport
    hookPage,     \* the page the hook found, 0 when none
    hookTs,       \* the timestamp the hook took
    hookWrites,   \* files written by the current run of the hook, in order
    hookLog,      \* messages logged by the current run of the hook
    hookRaisedAt, \* the step of the current run that raised, "" when none
    files,        \* the paths of the files under settings.report_dir
    now,          \* the wall clock, in seconds
    platform,     \* "posix" | "windows": how text files translate newlines
    credFile,     \* user_credentials.json: [exists, bytes, class]
    lastSave,     \* the arguments of the last save_credentials, <<>> when none
    loadResult,   \* the load_credentials since the last write, if any: [state, pair]
    fileAtLoad,   \* the file as the last load_credentials found it
    fixtureRun,   \* the credentials_file fixture: [state, before, after]
    owner,        \* test -> the worker process that runs it
    tpc,          \* test -> its position, in a run of several workers
    fixtureCache, \* worker -> its credentials_file fixture has returned
    saveDone,     \* the save_credentials of this run has returned
    dirtied,      \* the file was opened for writing after that save returned
    loadCtx,      \* saveDone and dirtied as the reader's load found them
    env,          \* os.environ: variable -> [set, text]
    settings,     \* the Settings object: [state, raisedAt, fields]
    fsDirs,       \* the directories of the file system, as paths
    fsFiles,      \* the regular files of the file system, as paths
    ensureCalls,  \* calls of ensure_directories so far
    lastCall,     \* the last of them: [before, after, raised]
    registered,   \* the emails the service has an account for
    apiPc,        \* position of the running API test
    apiTest,      \* its name
    apiEmail,     \* the email it drew
    firstResp,    \* the response to its first createAccount
    dupResp,      \* the response to its second createAccount
    apiSaved,     \* it has called save_credentials
    fileAtStart,  \* user_credentials.json as its body found it
    served,       \* the last request the service handled
    apiRuns       \* API tests started so far

sessionVars == <<pc, cur, item, hasHtml, tdRaised, browserState, browserEngine, launches,
          browserErrors, ctxOf, pageOf,
          ctxCount, pageCount, pageCtx, ctxOpen, pageOpen, cookies, events,
          finalizers, callOutcome, report, reportBefore, hookPc, hookPage, hookTs,
          hookWrites, hookLog, hookRaisedAt, files, now>>

credVars == <<platform, credFile, lastSave, loadResult, fileAtLoad, fixtureRun>>

workerVars == <<owner, tpc, fixtureCache, saveDone, dirtied, loadCtx>>

settingsVars == <<env, settings, fsDirs, fsFiles, ensureCalls, lastCall>>

apiVars == <<registered, apiPc, apiTest, apiEmail, firstResp, dupResp, apiSaved,
             fileAtStart, served, apiRuns>>

vars == <<sessionVars, credVars, workerVars, settingsVars, apiVars>>

\* What the fixtures and the hook leave alone, and what the credential helpers do.
outsideSession  == <<credVars, workerVars, settingsVars, apiVars>>
outsideCred     == <<sessionVars, workerVars, settingsVars, apiVars>>
outsideWorkers  == <<sessionVars, fixtureRun, settingsVars, apiVars>>
outsideSettings == <<sessionVars, credVars, workerVars, apiVars>>

browserVars == <<browserState, browserEngine, launches, browserErrors>>
fixtureVars == <<ctxOf, pageOf, ctxCount, pageCount, pageCtx, ctxOpen, pageOpen,
                 events>>
hookVars    == <<hookPage, hookTs, hookWrites, hookLog, hookRaisedAt, files>>

Tests == 1..NumTests

NoItem   == [kind |-> "none", extra |-> "none", name |-> ""]
NoReport == [when |-> "none", outcome |-> "none", hasExtra |-> FALSE, extra |-> <<>>]

SessionInit ==
    /\ pc = "idle"
    /\ cur = 0
    /\ item = NoItem
    /\ hasHtml \in BOOLEAN
    /\ tdRaised = FALSE
    /\ browserState = "none"
    /\ browserEngine = ""
    /\ launches = [b \in Range(SettingsBrowsers) |-> 0]
    /\ browserErrors = 0
    /\ ctxOf = [t \in Tests |-> 0]
    /\ pageOf = [t \in Tests |-> 0]
    /\ ctxCount = 0
    /\ pageCount = 0
    /\ pageCtx = <<>>
    /\ ctxOpen = {}
    /\ pageOpen = {}
    /\ cookies = <<>>
    /\ events = <<>>
    /\ finalizers = <<>>
    /\ callOutcome = "none"
    /\ report = NoReport
    /\ reportBefore = NoReport
    /\ hookPc = "none"
    /\ hookPage = 0
    /\ hookTs = 0
    /\ hookWrites = <<>>
    /\ hookLog = <<>>
    /\ hookRaisedAt = ""
    /\ files = {}
    /\ now = 0

\* ------------------------------------------------------------ reports
\* An entry of report.extra that another plugin put there before the hook ran.
NoPath == [dir |-> "", prefix |-> "", test |-> "", ts |-> 0, ext |-> ""]
PluginExtra == [kind |-> "plugin", path |-> NoPath]

\* pytest builds the report of a phase (TestReport.from_item_and_call) and hands
\* it to the hook wrapper: `outcome = yield; report = outcome.get_result()`.
\* report.extra is absent unless a plugin set it.
EnterReport(when, outcome) ==
    /\ \E e \in BOOLEAN :
          report' = [when |-> when, outcome |-> outcome, hasExtra |-> e,
                     extra |-> IF e THEN <<PluginExtra>> ELSE <<>>]
    /\ reportBefore' = report'
    /\ pc' = "makereport"
    /\ hookPc' = "entry"
    /\ hookPage' = 0
    /\ hookTs' = 0
    /\ hookWrites' = <<>>
    /\ hookLog' = <<>>
    /\ hookRaisedAt' = ""

\* ----------------------------------------------------------- fixtures
\* getattr(request, "param", settings.browsers[0]): the fixture declares no
\* params, so request has no attribute "param" and the default is taken.
BrowserNameParam == SettingsBrowsers[1]

\* The runner picks the next collected test.  kind "ui" requests the page
\* fixture, kind "api" requests no browser fixture, kind "other" is an item
\* that is no test function and has no funcargs at all.  extra says whether
\* the test has one more Page-typed fixture value, and on which side of "page"
\* it sits in item.funcargs.
StartTest ==
    /\ pc = "idle"
    /\ cur < NumTests
    /\ \E k \in {"ui", "api", "other"}, x \in {"none", "before", "after"},
          n \in ItemNames :
          /\ k = "api" => x # "before"
          /\ k = "other" => x = "none"
          /\ item' = [kind |-> k, extra |-> x, name |-> n]
          /\ IF k = "ui"
               THEN /\ pc' = "setup_browser"
                    /\ UNCHANGED <<report, reportBefore, hookPc, hookPage,
                                   hookTs, hookWrites, hookLog, hookRaisedAt>>
               ELSE EnterReport("setup", "passed")
    /\ cur' = cur + 1
    /\ UNCHANGED outsideSession
    /\ UNCHANGED <<hasHtml, tdRaised, browserVars, fixtureVars, cookies, finalizers,
                   callOutcome, files, now>>

\* conftest.py browser(): session scope.  pytest runs the fixture function when
\* the fixture has no cached result; it caches the value, and a failed setup
\* too: a later request re-raises the cached exception and does not run the
\* fixture function again.
\* (MustRunAfterFailure: the function run again when its last run raised.)
MustRunAfterFailure(state) == state \in {"none", "failed"}
MustRun(state) == state = "none"

BrowserFixture ==
    /\ pc = "setup_browser"
    /\ \/ /\ ~MustRun(browserState)
          /\ browserState = "launched"
          /\ pc' = "setup_context"
          /\ UNCHANGED <<browserVars, report, reportBefore, hookPc, hookPage,
                         hookTs, hookWrites, hookLog, hookRaisedAt>>
       \/ /\ ~MustRun(browserState)
          /\ browserState = "failed"
          /\ browserErrors' = browserErrors + 1
          /\ EnterReport("setup", "failed")
          /\ UNCHANGED <<browserState, browserEngine, launches>>
       \/ /\ MustRun(browserState)
          /\ launches' = [launches EXCEPT ![BrowserNameParam] = @ + 1]
          /\ \/ /\ browserState' = "launched"
                /\ browserEngine' = BrowserNameParam
                /\ pc' = "setup_context"
                /\ UNCHANGED <<browserErrors, report, reportBefore, hookPc, hookPage,
                               hookTs, hookWrites, hookLog, hookRaisedAt>>
             \/ /\ browserState' = "failed"
                /\ browserEngine' = ""
                /\ browserErrors' = browserErrors + 1
                /\ EnterReport("setup", "failed")
    /\ UNCHANGED outsideSession
    /\ UNCHANGED <<cur, item, hasHtml, tdRaised, fixtureVars, cookies, finalizers,
                   callOutcome, files, now>>

\* A fixture that yielded gets its finalizer (the code after the yield) pushed
\* on the stack of the test; pytest runs the stack last in, first out.
\* (PushFinalizerFirst: a stack run first in, first out instead.)
PushFinalizerFirst(fs, f) == <<f>> \o fs
PushFinalizer(fs, f) == Append(fs, f)

\* browser.new_context(accept_downloads=True): a context of its own.
\* (NewContextShared: one context kept for the session instead.)
NewContextShared == IF ctxCount = 0 THEN ctxCount + 1 ELSE ctxCount
NewContextId == ctxCount + 1

\* conftest.py context(): function scope.  The fixture yields only when
\* new_context returned, and only then has a finalizer.
ContextFixture ==
    /\ pc = "setup_context"
    /\ \/ /\ ctxCount' = ctxCount + 1
          /\ ctxOf' = [ctxOf EXCEPT ![cur] = NewContextId]
          /\ ctxOpen' = ctxOpen \cup {NewContextId}
          /\ cookies' = IF NewContextId \in DOMAIN cookies
                          THEN cookies
                          ELSE Append(cookies, {})
          /\ events' = Append(events, "context_opened")
          /\ finalizers' = PushFinalizer(finalizers, "context")
          /\ pc' = "setup_page"
          /\ UNCHANGED <<report, reportBefore, hookPc, hookPage, hookTs,
                         hookWrites, hookLog, hookRaisedAt>>
       \/ /\ EnterReport("setup", "failed")
          /\ UNCHANGED <<ctxCount, ctxOf, ctxOpen, cookies, events, finalizers>>
    /\ UNCHANGED outsideSession
    /\ UNCHANGED <<cur, item, hasHtml, tdRaised, browserVars, pageOf, pageCount,
                   pageCtx, pageOpen, callOutcome, files, now>>

\* context.new_page(): a page of its own, inside the context of the test.
NewPageId == pageCount + 1

\* conftest.py page(): function scope.
PageFixture ==
    /\ pc = "setup_page"
    /\ \/ /\ pageCount' = pageCount + 1
          /\ pageOf' = [pageOf EXCEPT ![cur] = NewPageId]
          /\ pageCtx' = IF NewPageId \in DOMAIN pageCtx
                          THEN [pageCtx EXCEPT ![NewPageId] = ctxOf[cur]]
                          ELSE Append(pageCtx, ctxOf[cur])
          /\ pageOpen' = pageOpen \cup {NewPageId}
          /\ events' = Append(events, "page_opened")
          /\ finalizers' = PushFinalizer(finalizers, "page")
          /\ EnterReport("setup", "passed")
       \/ /\ EnterReport("setup", "failed")
          /\ UNCHANGED <<pageCount, pageOf, pageCtx, pageOpen, events, finalizers>>
    /\ UNCHANGED outsideSession
    /\ UNCHANGED <<cur, item, hasHtml, tdRaised, browserVars, ctxOf, ctxCount,
                   ctxOpen, cookies, callOutcome, files, now>>

\* --------------------------------------------------------------- call
\* The body of a UI test acts on its page: what it stores (cookies, storage)
\* lands in the jar of the context the page belongs to.
BodyAct ==
    /\ pc = "call"
    /\ item.kind = "ui"
    /\ cur \notin cookies[pageCtx[pageOf[cur]]]
    /\ cookies' = [cookies EXCEPT ![pageCtx[pageOf[cur]]] = @ \cup {cur}]
    /\ UNCHANGED outsideSession
    /\ UNCHANGED <<pc, cur, item, hasHtml, tdRaised, browserVars, fixtureVars,
                   finalizers, callOutcome, report, reportBefore, hookPc, hookVars, now>>

\* The body returns (passed) or raises an assertion or a timeout (failed).
BodyEnd ==
    /\ pc = "call"
    /\ \E o \in {"passed", "failed"} :
          /\ EnterReport("call", o)
          /\ callOutcome' = o
    /\ UNCHANGED outsideSession
    /\ UNCHANGED <<cur, item, hasHtml, tdRaised, browserVars, fixtureVars, cookies,
                   finalizers, files, now>>

\* Time passes while a test body runs.
Tick ==
    /\ pc = "call"
    /\ now < MaxClock
    /\ now' = now + 1
    /\ UNCHANGED outsideSession
    /\ UNCHANGED <<pc, cur, item, hasHtml, tdRaised, browserVars, fixtureVars,
                   cookies, finalizers, callOutcome, report, reportBefore, hookPc,
                   hookVars>>

\* ----------------------------------------------------------- teardown
Last(s) == s[Len(s)]
Front(s) == SubSeq(s, 1, Len(s) - 1)

\* The phase pytest enters after the report of `when` went through the hook:
\* the call only after a passed setup, the teardown after every setup and call
\* (the code after a fixture's yield runs whatever the outcome of the body).
\* (AfterReportPcNoRelease: no teardown after a failed body instead.)
AfterReportPcNoRelease(when, outcome) ==
    CASE when = "setup" /\ outcome = "passed" -> "call"
      [] when = "setup" /\ outcome # "passed" -> "teardown"
      [] when = "call" /\ outcome = "passed" -> "teardown"
      [] OTHER -> "idle"
AfterReportPc(when, outcome) ==
    CASE when = "setup" /\ outcome = "passed" -> "call"
      [] when = "setup" /\ outcome # "passed" -> "teardown"
      [] when = "call" -> "teardown"
      [] OTHER -> "idle"

\* conftest.py page(), after the yield: page.close().  A raising close leaves
\* the page closed or open; pytest goes on with the remaining finalizers.
\* (AbortAfterRaise: the finalizers left are dropped when one raises.)
AbortAfterRaise(fs) == <<>>
RemainingAfterRaise(fs) == Front(fs)

PageTeardown ==
    /\ pc = "teardown"
    /\ finalizers # <<>>
    /\ Last(finalizers) = "page"
    /\ \/ /\ pageOpen' = pageOpen \ {pageOf[cur]}
          /\ events' = Append(events, "page_closed")
          /\ finalizers' = Front(finalizers)
          /\ UNCHANGED tdRaised
       \/ /\ tdRaised' = TRUE
          /\ finalizers' = RemainingAfterRaise(finalizers)
          /\ \/ /\ pageOpen' = pageOpen \ {pageOf[cur]}
                /\ events' = Append(events, "page_closed")
             \/ UNCHANGED <<pageOpen, events>>
    /\ UNCHANGED outsideSession
    /\ UNCHANGED <<pc, cur, item, hasHtml, browserVars, ctxOf, pageOf, ctxCount,
                   pageCount, pageCtx, ctxOpen, cookies, callOutcome, report,
                   reportBefore, hookPc, hookVars, now>>

\* conftest.py context(), after the yield: context.close(), which closes the
\* context and every page still open in it.
ContextTeardown ==
    /\ pc = "teardown"
    /\ finalizers # <<>>
    /\ Last(finalizers) = "context"
    /\ finalizers' = Front(finalizers)
    /\ LET c == ctxOf[cur]
           left == {p \in pageOpen : pageCtx[p] = c}
       IN  /\ ctxOpen' = ctxOpen \ {c}
           /\ pageOpen' = pageOpen \ left
           /\ events' = IF left = {}
                          THEN Append(events, "context_closed")
                          ELSE events \o <<"page_closed", "context_closed">>
    /\ UNCHANGED outsideSession
    /\ UNCHANGED <<pc, cur, item, hasHtml, tdRaised, browserVars, ctxOf, pageOf,
                   ctxCount, pageCount, pageCtx, cookies, callOutcome, report,
                   reportBefore, hookPc, hookVars, now>>

\* Every finalizer ran: pytest reports the teardown phase.
TeardownEnd ==
    /\ pc = "teardown"
    /\ finalizers = <<>>
    /\ EnterReport("teardown", IF tdRaised THEN "failed" ELSE "passed")
    /\ UNCHANGED outsideSession
    /\ UNCHANGED <<cur, item, hasHtml, tdRaised, browserVars, fixtureVars, cookies,
                   finalizers, callOutcome, files, now>>

\* The session ends: the finalizer of browser() runs browser.close().
SessionFinish ==
    /\ pc = "idle"
    /\ pc' = "finished"
    /\ browserState' = IF browserState = "launched" THEN "closed" ELSE browserState
    /\ UNCHANGED outsideSession
    /\ UNCHANGED <<cur, item, hasHtml, tdRaised, browserEngine, launches,
                   browserErrors, fixtureVars, cookies, finalizers, callOutcome, report,
                   reportBefore, hookPc, hookVars, now>>

\* ------------------------------------------- pytest_runtest_makereport
\* item.funcargs of the running test, in the order the fixtures were filled:
\* the values the test requested, then the ones those depend on.  A value of
\* id -1 is a Page that a fixture of the test's own module provides.
FuncArgs ==
    LET own == IF item.kind = "ui"
                 THEN (IF pageOf[cur] # 0
                         THEN <<[type |-> "Page", id |-> pageOf[cur]]>>
                         ELSE <<>>)
                      \o (IF ctxOf[cur] # 0
                            THEN <<[type |-> "BrowserContext", id |-> ctxOf[cur]]>>
                            ELSE <<>>)
                      \o <<[type |-> "Browser", id |-> 0]>>
                 ELSE <<[type |-> "Path", id |-> 0]>>
        other == <<[type |-> "Page", id |-> -1]>>
    IN  CASE item.kind = "other" -> <<>>
          [] item.extra = "before" -> other \o own
          [] item.extra = "after"  -> own \o other
          [] OTHER -> own

\* for name, value in item.funcargs.items(): if isinstance(value, Page): page =
\* value; break.  0 stands for None.
FindPage(args) ==
    LET hits == {i \in DOMAIN args : args[i].type = "Page"}
    IN  IF hits = {} THEN 0
        ELSE args[CHOOSE i \in hits : \A j \in hits : i <= j].id

\* report.when == "call" and report.failed
\* (ShouldCaptureAnyPhase: without the test of report.when.)
ShouldCaptureAnyPhase(r) == r.outcome = "failed"
ShouldCapture(r) == r.when = "call" /\ r.outcome = "failed"

\* screenshot_dir / f"failure_{item.name}_{timestamp}.png"
\* (ScreenshotPathNoName: without item.name in the file name.)
ScreenshotPathNoName(name, ts) ==
    [dir |-> "screenshots", prefix |-> "failure", test |-> "", ts |-> ts,
     ext |-> "png"]
ScreenshotPath(name, ts) ==
    [dir |-> "screenshots", prefix |-> "failure", test |-> name, ts |-> ts,
     ext |-> "png"]

\* source_dir / f"source_{item.name}_{timestamp}.html"
SourcePath(name, ts) ==
    [dir |-> "page_source", prefix |-> "source", test |-> name, ts |-> ts,
     ext |-> "html"]

\* Writing a file replaces what the path held.
WriteFile(fs, f) == fs \cup {f.path}

\* The steps of the hook that sit inside its try block.
\* (InTryShort: a try block that ends before the attachments.)
InTryShort(step) == step \in {"lookup", "screenshot", "content", "source"}
InTry(step) == step \in {"lookup", "screenshot", "content", "source", "attach"}

\* Where control goes when a step raises an Exception.
\* (OnRaiseSourceIgnored: a raise of the page-source step that is swallowed
\* on the spot, so that the attachments follow.)
OnRaiseSourceIgnored(step) ==
    IF step \in {"content", "source"} THEN "attach"
    ELSE IF InTry(step) THEN "except" ELSE "propagated"
OnRaise(step) == IF InTry(step) THEN "except" ELSE "propagated"

\* extra.append(...image(str(screenshot_path)))
\* (AppendImageFresh: the image put in a fresh list, not in the one the report has.)
AppendImageFresh(r, shot) ==
    [r EXCEPT !.extra = <<[kind |-> "image", path |-> shot]>>]
AppendImage(r, shot) ==
    [r EXCEPT !.extra = Append(@, [kind |-> "image", path |-> shot])]

\* extra.append(...html(f"<a href='{source_path}'>Page Source</a>"))
AppendLink(r, src) ==
    [r EXCEPT !.extra = Append(@, [kind |-> "html", path |-> src])]

\* extra = getattr(report, "extra", []); the two appends; report.extra = extra
\* (AttachExtrasVerdict: an attach that also rewrites report.outcome.)
AttachExtrasVerdict(r, shot, src) ==
    [AppendLink(AppendImage(r, shot), src) EXCEPT !.hasExtra = TRUE,
                                                   !.outcome = "passed"]
AttachExtras(r, shot, src) ==
    [AppendLink(AppendImage(r, shot), src) EXCEPT !.hasExtra = TRUE]

\* outcome = yield; report = outcome.get_result(); the test of line 176.
HookEntry ==
    /\ pc = "makereport"
    /\ hookPc = "entry"
    /\ hookPc' = IF ShouldCapture(report) THEN "lookup" ELSE "return"
    /\ UNCHANGED outsideSession
    /\ UNCHANGED <<pc, cur, item, hasHtml, tdRaised, browserVars, fixtureVars,
                   cookies, finalizers, callOutcome, report, reportBefore, hookVars,
                   now>>

\* Lines 178-185: the search for a Page among the fixture values.  With no
\* Page found the body of `if page:` is skipped and the hook returns.  An item
\* without funcargs makes item.funcargs raise an AttributeError.
HookLookup ==
    /\ pc = "makereport"
    /\ hookPc = "lookup"
    /\ \/ /\ item.kind # "other"
          /\ hookPage' = FindPage(FuncArgs)
          /\ hookPc' = IF FindPage(FuncArgs) # 0 THEN "screenshot" ELSE "return"
          /\ UNCHANGED hookRaisedAt
       \/ /\ item.kind = "other"
          /\ hookRaisedAt' = "lookup"
          /\ hookPc' = OnRaise("lookup")
          /\ UNCHANGED hookPage
    /\ UNCHANGED outsideSession
    /\ UNCHANGED <<pc, cur, item, hasHtml, tdRaised, browserVars, fixtureVars,
                   cookies, finalizers, callOutcome, report, reportBefore, hookTs,
                   hookWrites, hookLog, files, now>>

\* Lines 187-192: the timestamp, the screenshots directory, page.screenshot.
HookScreenshot ==
    /\ pc = "makereport"
    /\ hookPc = "screenshot"
    /\ hookTs' = now
    /\ \/ /\ LET f == [path |-> ScreenshotPath(item.name, now), of |-> hookPage,
                       whole |-> TRUE]
             IN  /\ files' = WriteFile(files, f)
                 /\ hookWrites' = Append(hookWrites, f)
          /\ hookPc' = "source"
          /\ UNCHANGED hookRaisedAt
       \/ /\ hookRaisedAt' = "screenshot"
          /\ hookPc' = OnRaise("screenshot")
          /\ UNCHANGED <<files, hookWrites>>
    /\ UNCHANGED outsideSession
    /\ UNCHANGED <<pc, cur, item, hasHtml, tdRaised, browserVars, fixtureVars,
                   cookies, finalizers, callOutcome, report, reportBefore, hookPage,
                   hookLog, now>>

\* Lines 195-198: the page_source directory, page.content(), write_text.
\* page.content() is evaluated before the file is opened, so a raise of the
\* mkdir or of page.content() ("content") leaves no file; write_text opens
\* (and truncates) the file and then writes, so a raising write_text
\* ("source") leaves no file when the open raised and a file that is not
\* whole when the write did.
HookSource ==
    /\ pc = "makereport"
    /\ hookPc = "source"
    /\ \/ /\ LET f == [path |-> SourcePath(item.name, hookTs), of |-> hookPage,
                       whole |-> TRUE]
             IN  /\ files' = WriteFile(files, f)
                 /\ hookWrites' = Append(hookWrites, f)
          /\ hookPc' = "attach"
          /\ UNCHANGED hookRaisedAt
       \/ /\ hookRaisedAt' = "content"
          /\ hookPc' = OnRaise("content")
          /\ UNCHANGED <<files, hookWrites>>
       \/ /\ hookRaisedAt' = "source"
          /\ hookPc' = OnRaise("source")
          /\ \/ UNCHANGED <<files, hookWrites>>
             \/ LET f == [path |-> SourcePath(item.name, hookTs), of |-> hookPage,
                          whole |-> FALSE]
                IN  /\ files' = WriteFile(files, f)
                    /\ hookWrites' = Append(hookWrites, f)
    /\ UNCHANGED outsideSession
    /\ UNCHANGED <<pc, cur, item, hasHtml, tdRaised, browserVars, fixtureVars,
                   cookies, finalizers, callOutcome, report, reportBefore, hookPage,
                   hookTs, hookLog, now>>

\* Lines 201-208: the attachments, when the configuration has _html, and the
\* two log lines.  `extra` is report.extra itself when the report has one, so
\* an append that was made stays when the next expression raises; without the
\* attribute `extra` is a fresh list, lost when the hook raises before line 205.
HookAttach ==
    /\ pc = "makereport"
    /\ hookPc = "attach"
    /\ LET shot == ScreenshotPath(item.name, hookTs)
           src  == SourcePath(item.name, hookTs)
       IN  \/ /\ ~hasHtml
              /\ UNCHANGED <<report, hookRaisedAt>>
              /\ hookLog' = hookLog \o <<"screenshot saved", "page source saved">>
              /\ hookPc' = "return"
           \/ /\ hasHtml
              /\ report' = AttachExtras(report, shot, src)
              /\ hookLog' = hookLog \o <<"screenshot saved", "page source saved">>
              /\ hookPc' = "return"
              /\ UNCHANGED hookRaisedAt
           \/ /\ hasHtml
              /\ hookRaisedAt' = "attach"
              /\ hookPc' = OnRaise("attach")
              /\ UNCHANGED hookLog
              /\ \/ UNCHANGED report
                 \/ /\ report.hasExtra
                    /\ report' = AppendImage(report, shot)
    /\ UNCHANGED outsideSession
    /\ UNCHANGED <<pc, cur, item, hasHtml, tdRaised, browserVars, fixtureVars,
                   cookies, finalizers, callOutcome, reportBefore, hookPage, hookTs,
                   hookWrites, files, now>>

\* Line 211: logging.error(f"Failed to capture failure artifacts: {e}")
HookExcept ==
    /\ pc = "makereport"
    /\ hookPc = "except"
    /\ hookLog' = Append(hookLog, "failed to capture")
    /\ hookPc' = "return"
    /\ UNCHANGED outsideSession
    /\ UNCHANGED <<pc, cur, item, hasHtml, tdRaised, browserVars, fixtureVars,
                   cookies, finalizers, callOutcome, report, reportBefore, hookPage,
                   hookTs, hookWrites, hookRaisedAt, files, now>>

\* The hook wrapper returned: pytest keeps the report and goes on to the next
\* phase of the test, or to the next test.
HookReturn ==
    /\ pc = "makereport"
    /\ hookPc = "return"
    /\ hookPc' = "none"
    /\ pc' = AfterReportPc(report.when, report.outcome)
    /\ report' = NoReport
    /\ reportBefore' = NoReport
    /\ hookPage' = 0
    /\ hookTs' = 0
    /\ hookWrites' = <<>>
    /\ hookLog' = <<>>
    /\ hookRaisedAt' = ""
    /\ IF report.when = "teardown"
         THEN /\ item' = NoItem
              /\ events' = <<>>
              /\ tdRaised' = FALSE
              /\ callOutcome' = "none"
         ELSE UNCHANGED <<item, events, tdRaised, callOutcome>>
    /\ UNCHANGED outsideSession
    /\ UNCHANGED <<cur, hasHtml, browserVars, ctxOf, pageOf, ctxCount, pageCount,
                   pageCtx, ctxOpen, pageOpen, cookies, finalizers, files, now>>

\* ------------------------------------------------- utils/test_data.py
\* Texts are sequences of characters.  The characters that matter to JSON:
QUOTE  == "\""
BSLASH == "\\"
NL     == "\n"
CR     == "\r"
TAB    == "\t"
\* A character outside ASCII (e-acute), as one element of a text.
EACUTE == "U+00E9"
\* Any other code point a \uXXXX escape may name.
OTHERCP == "U+XXXX"

\* The characters an email or a password is made of in this model.
Chars == {"a", QUOTE, BSLASH, NL, EACUTE}
PasswordChars == {QUOTE, BSLASH}

\* The strings of at most n characters.
RECURSIVE StringsUpTo(_, _)
StringsUpTo(cs, n) ==
    IF n = 0 THEN {<<>>}
    ELSE LET shorter == StringsUpTo(cs, n - 1)
         IN  shorter \cup {Append(s, c) : s \in shorter, c \in cs}

Emails == StringsUpTo(Chars, MaxStrLen)
Passwords == StringsUpTo(PasswordChars, MaxStrLen)

EmailKey    == <<"e", "m", "a", "i", "l">>
PasswordKey == <<"p", "a", "s", "s", "w", "o", "r", "d">>

RECURSIVE Flatten(_)
Flatten(ss) == IF ss = <<>> THEN <<>> ELSE Head(ss) \o Flatten(Tail(ss))

\* json.dumps of a str with ensure_ascii (the default): the quote and the
\* backslash get a backslash, control characters their short escape, and
\* everything outside ASCII becomes \uXXXX.
\* (EscapeCharRaw: the character copied as it is, as string formatting would.)
EscapeCharRaw(c) == <<c>>
EscapeChar(c) ==
    CASE c = QUOTE  -> <<BSLASH, QUOTE>>
      [] c = BSLASH -> <<BSLASH, BSLASH>>
      [] c = NL     -> <<BSLASH, "n">>
      [] c = CR     -> <<BSLASH, "r">>
      [] c = TAB    -> <<BSLASH, "t">>
      [] c = EACUTE -> <<BSLASH, "u", "0", "0", "e", "9">>
      [] OTHER      -> <<c>>

JsonString(str) ==
    <<QUOTE>> \o Flatten([i \in DOMAIN str |-> EscapeChar(str[i])]) \o <<QUOTE>>

\* json.dumps({"email": email, "password": password}, indent=2): one member a
\* line, indented by two spaces, "," between members and ": " after a key.
JsonDumpsIndent(email, password) ==
    <<"{", NL, " ", " ">> \o JsonString(EmailKey) \o <<":", " ">>
        \o JsonString(email) \o <<",", NL, " ", " ">>
        \o JsonString(PasswordKey) \o <<":", " ">> \o JsonString(password)
        \o <<NL, "}">>

\* json.dumps({"email": "", "password": ""}): no indent, ", " between members.
JsonDumpsFlat(email, password) ==
    <<"{">> \o JsonString(EmailKey) \o <<":", " ">> \o JsonString(email)
        \o <<",", " ">> \o JsonString(PasswordKey) \o <<":", " ">>
        \o JsonString(password) \o <<"}">>

\* Path.write_text opens the file in text mode: on Windows every "\n" is
\* written as "\r\n".
RECURSIVE WriteText(_, _)
WriteText(os, text) ==
    IF text = <<>> THEN <<>>
    ELSE IF os = "windows" /\ Head(text) = NL
           THEN <<CR, NL>> \o WriteText(os, Tail(text))
           ELSE <<Head(text)>> \o WriteText(os, Tail(text))

\* Path.read_text reads with universal newlines: "\r\n" and "\r" come back as
\* "\n", on every platform.
RECURSIVE ReadText(_)
ReadText(bytes) ==
    IF bytes = <<>> THEN <<>>
    ELSE IF Head(bytes) = CR
           THEN IF Len(bytes) >= 2 /\ bytes[2] = NL
                  THEN <<NL>> \o ReadText(Tail(Tail(bytes)))
                  ELSE <<NL>> \o ReadText(Tail(bytes))
           ELSE <<Head(bytes)>> \o ReadText(Tail(bytes))

\* ---- json.loads, for texts made of strings, objects, arrays and null
\* (the texts of this model hold no number and no true/false).
NullVal      == [kind |-> "null", str |-> <<>>, members |-> <<>>]
StrVal(x)    == [kind |-> "str", str |-> x, members |-> <<>>]
ObjVal(ms)   == [kind |-> "obj", str |-> <<>>, members |-> ms]
ArrVal(es)   == [kind |-> "arr", str |-> <<>>, members |-> es]
ParseFail    == [ok |-> FALSE, val |-> NullVal, next |-> 0]
Parsed(v, n) == [ok |-> TRUE, val |-> v, next |-> n]

IsWs(c) == c \in {" ", TAB, NL, CR}
IsControl(c) == c \in {TAB, NL, CR}
HexDigits == {"0", "1", "2", "3", "4", "5", "6", "7", "8", "9",
              "a", "b", "c", "d", "e", "f", "A", "B", "C", "D", "E", "F"}

RECURSIVE SkipWs(_, _)
SkipWs(s, i) == IF i <= Len(s) /\ IsWs(s[i]) THEN SkipWs(s, i + 1) ELSE i

\* The character a \uXXXX escape stands for.
CodePoint(hex) ==
    CASE hex = <<"0", "0", "e", "9">> -> EACUTE
      [] hex = <<"0", "0", "E", "9">> -> EACUTE
      [] hex = <<"0", "0", "0", "a">> -> NL
      [] hex = <<"0", "0", "0", "A">> -> NL
      [] hex = <<"0", "0", "2", "2">> -> QUOTE
      [] hex = <<"0", "0", "5", "c">> -> BSLASH
      [] hex = <<"0", "0", "5", "C">> -> BSLASH
      [] hex = <<"0", "0", "6", "1">> -> "a"
      [] OTHER -> OTHERCP

\* The character a two-character escape stands for; "" when it is no escape.
Unescape(e) ==
    CASE e = QUOTE  -> QUOTE
      [] e = BSLASH -> BSLASH
      [] e = "/"    -> "/"
      [] e = "n"    -> NL
      [] e = "r"    -> CR
      [] e = "t"    -> TAB
      [] e = "b"    -> "U+0008"
      [] e = "f"    -> "U+000C"
      [] OTHER      -> ""

\* py_scanstring, strict: from the character after the opening quote to the
\* closing quote; a raw control character, a bad escape or the end of the text
\* before the closing quote is an error.
RECURSIVE ScanString(_, _, _)
ScanString(s, i, acc) ==
    IF i > Len(s) THEN ParseFail
    ELSE IF s[i] = QUOTE THEN Parsed(StrVal(acc), i + 1)
    ELSE IF s[i] = BSLASH THEN
        IF i + 1 > Len(s) THEN ParseFail
        ELSE IF s[i + 1] = "u" THEN
            IF i + 5 <= Len(s) /\ \A k \in (i + 2)..(i + 5) : s[k] \in HexDigits
              THEN ScanString(s, i + 6, Append(acc, CodePoint(SubSeq(s, i + 2, i + 5))))
              ELSE ParseFail
        ELSE IF Unescape(s[i + 1]) # ""
              THEN ScanString(s, i + 2, Append(acc, Unescape(s[i + 1])))
              ELSE ParseFail
    ELSE IF IsControl(s[i]) THEN ParseFail
    ELSE ScanString(s, i + 1, Append(acc, s[i]))

RECURSIVE ParseValue(_, _)
RECURSIVE ParseMembers(_, _, _)
RECURSIVE ParseElements(_, _, _)

\* JSONObject, from the member whose key starts at j (s[j] is a quote).
ParseMembers(s, j, acc) ==
    LET k == ScanString(s, j + 1, <<>>)
    IN  IF ~k.ok THEN ParseFail
        ELSE LET c == SkipWs(s, k.next)
             IN  IF c > Len(s) \/ s[c] # ":" THEN ParseFail
                 ELSE LET v == ParseValue(s, SkipWs(s, c + 1))
                      IN  IF ~v.ok THEN ParseFail
                          ELSE LET d == SkipWs(s, v.next)
                                   more == Append(acc, [key |-> k.val.str, val |-> v.val])
                               IN  IF d > Len(s) THEN ParseFail
                                   ELSE IF s[d] = "}" THEN Parsed(ObjVal(more), d + 1)
                                   ELSE IF s[d] # "," THEN ParseFail
                                   ELSE LET n == SkipWs(s, d + 1)
                                        IN  IF n > Len(s) \/ s[n] # QUOTE
                                              THEN ParseFail
                                              ELSE ParseMembers(s, n, more)

\* JSONArray, from the element that starts at j.
ParseElements(s, j, acc) ==
    LET v == ParseValue(s, j)
    IN  IF ~v.ok THEN ParseFail
        ELSE LET d == SkipWs(s, v.next)
                 more == Append(acc, [key |-> <<>>, val |-> v.val])
             IN  IF d > Len(s) THEN ParseFail
                 ELSE IF s[d] = "]" THEN Parsed(ArrVal(more), d + 1)
                 ELSE IF s[d] # "," THEN ParseFail
                 ELSE ParseElements(s, SkipWs(s, d + 1), more)

\* scan_once: the value that starts at i.
ParseValue(s, i) ==
    IF i > Len(s) THEN ParseFail
    ELSE IF s[i] = QUOTE THEN ScanString(s, i + 1, <<>>)
    ELSE IF s[i] = "{" THEN
        LET j == SkipWs(s, i + 1)
        IN  IF j > Len(s) THEN ParseFail
            ELSE IF s[j] = "}" THEN Parsed(ObjVal(<<>>), j + 1)
            ELSE IF s[j] # QUOTE THEN ParseFail
            ELSE ParseMembers(s, j, <<>>)
    ELSE IF s[i] = "[" THEN
        LET j == SkipWs(s, i + 1)
        IN  IF j > Len(s) THEN ParseFail
            ELSE IF s[j] = "]" THEN Parsed(ArrVal(<<>>), j + 1)
            ELSE ParseElements(s, j, <<>>)
    ELSE IF i + 3 <= Len(s) /\ SubSeq(s, i, i + 3) = <<"n", "u", "l", "l">>
        THEN Parsed(NullVal, i + 4)
    ELSE ParseFail

\* json.loads: one value, white space around it, nothing after it.
JsonLoads(s) ==
    LET v == ParseValue(s, SkipWs(s, 1))
    IN  IF ~v.ok THEN ParseFail
        ELSE IF SkipWs(s, v.next) # Len(s) + 1 THEN ParseFail
        ELSE v

\* raw[key]: the value of the last member with that key; a KeyError without
\* one, a TypeError when raw is no object.
\* (GetItemOrEmpty: raw.get(key, "") for an object instead.)
GetItemOrEmpty(raw, key) ==
    LET hits == {i \in DOMAIN raw.members : raw.members[i].key = key}
    IN  IF raw.kind # "obj" THEN [ok |-> FALSE, val |-> NullVal]
        ELSE IF hits = {} THEN [ok |-> TRUE, val |-> StrVal(<<>>)]
        ELSE [ok |-> TRUE,
              val |-> raw.members[CHOOSE i \in hits : \A j \in hits : j <= i].val]
GetItem(raw, key) ==
    LET hits == {i \in DOMAIN raw.members : raw.members[i].key = key}
    IN  IF raw.kind # "obj" \/ hits = {} THEN [ok |-> FALSE, val |-> NullVal]
        ELSE [ok |-> TRUE,
              val |-> raw.members[CHOOSE i \in hits : \A j \in hits : j <= i].val]

NoFile == [exists |-> FALSE, bytes |-> <<>>, class |-> "absent"]
NoLoad == [state |-> "none", pair |-> <<>>]
LoadError == [state |-> "error", pair |-> <<>>]

\* save_credentials(file_path, email, password): the content of the file after
\* file_path.write_text(json.dumps(data, indent=2)).
\* (SavedBytesSwapped: the two values under each other's key.)
SavedBytesSwapped(os, email, password) == WriteText(os, JsonDumpsIndent(password, email))
SavedBytes(os, email, password) == WriteText(os, JsonDumpsIndent(email, password))

\* load_credentials(file_path): raw = json.loads(file_path.read_text());
\* return raw["email"], raw["password"].
LoadCredentials(file) ==
    IF ~file.exists THEN LoadError
    ELSE LET r == JsonLoads(ReadText(file.bytes))
         IN  IF ~r.ok THEN LoadError
             ELSE LET e == GetItem(r.val, EmailKey)
                      p == GetItem(r.val, PasswordKey)
                  IN  IF ~e.ok \/ ~p.ok THEN LoadError
                      ELSE [state |-> "ok", pair |-> <<e.val, p.val>>]

\* What user_credentials.json may hold when a run starts, each content with
\* the class it was built in.
Prefixes(text) == {SubSeq(text, 1, n) : n \in 0..(Len(text) - 1)}

Malformed ==
    Prefixes(JsonDumpsIndent(<<"a">>, <<QUOTE>>))
      \cup { JsonDumpsFlat(<<"a">>, <<"a">>) \o <<"}">>,
             <<"{", "'", "e", "m", "a", "i", "l", "'", ":", "'", "a", "'", "}">>,
             <<"{">> \o JsonString(EmailKey) \o <<":">> \o JsonString(<<>>)
                \o <<",">> \o JsonString(PasswordKey) \o <<":">>
                \o JsonString(<<>>) \o <<",", "}">>,
             <<"{">> \o JsonString(EmailKey) \o <<":", QUOTE, NL, QUOTE, ",">>
                \o JsonString(PasswordKey) \o <<":">> \o JsonString(<<>>) \o <<"}">>,
             <<"{">> \o JsonString(EmailKey) \o <<":", QUOTE, BSLASH, "x", QUOTE, ",">>
                \o JsonString(PasswordKey) \o <<":">> \o JsonString(<<>>) \o <<"}">> }

MissingKey ==
    { <<"{", "}">>,
      <<"{">> \o JsonString(EmailKey) \o <<":", " ">> \o JsonString(<<"a">>) \o <<"}">>,
      <<"{">> \o JsonString(PasswordKey) \o <<":", " ">> \o JsonString(<<"a">>) \o <<"}">>,
      <<"{">> \o JsonString(<<"E", "m", "a", "i", "l">>) \o <<":">> \o JsonString(<<"a">>)
         \o <<",">> \o JsonString(PasswordKey) \o <<":">> \o JsonString(<<"a">>) \o <<"}">>,
      <<"{">> \o JsonString(EmailKey) \o <<":", "n", "u", "l", "l", "}">> }

NotObject ==
    { <<"[", "]">>, JsonString(EmailKey), <<"n", "u", "l", "l">>,
      <<"[">> \o JsonString(EmailKey) \o <<",">> \o JsonString(PasswordKey) \o <<"]">> }

InitialFiles ==
    {NoFile}
      \cup {[exists |-> TRUE, bytes |-> JsonDumpsFlat(<<>>, <<>>), class |-> "stub"]}
      \cup {[exists |-> TRUE, bytes |-> SavedBytes(os, <<"a">>, <<EACUTE>>),
             class |-> "pair"] : os \in {"posix", "windows"}}
      \cup {[exists |-> TRUE, bytes |-> t, class |-> "malformed"] : t \in Malformed}
      \cup {[exists |-> TRUE, bytes |-> t, class |-> "missing_key"] : t \in MissingKey}
      \cup {[exists |-> TRUE, bytes |-> t, class |-> "not_object"] : t \in NotObject}

\* credentials_file (session scope): the content of the file when the fixture
\* returns.  json.dumps({"email": "", "password": ""}) is written only when
\* file_path.exists() is false.
\* (CredentialsFileAlways: the stub written without the exists() test.)
StubFile(os) ==
    [exists |-> TRUE, bytes |-> WriteText(os, JsonDumpsFlat(<<>>, <<>>)),
     class |-> "stub"]
CredentialsFileAlways(os, file) == StubFile(os)
CredentialsFile(os, file) == IF ~file.exists THEN StubFile(os) ELSE file

NoFixtureRun == [state |-> "none", before |-> NoFile, after |-> NoFile]
\* The fixture has returned and the file was written again since.
FixtureRunPast == [state |-> "past", before |-> NoFile, after |-> NoFile]

\* ---------------------------------------------------- utils/config.py
\* A text is a sequence of characters or, where the code only copies or
\* splits it, of longer tokens.
EnvNames ==
    <<"BASE_URL", "DOWNLOAD_DIR", "LOG_DIR", "REPORT_DIR", "BROWSERS", "HEADLESS",
      "SLOW_MO", "RETRY_COUNT", "PARALLEL_WORKERS", "VIDEO_RECORDING",
      "DEFAULT_TIMEOUT", "NAVIGATION_TIMEOUT", "API_TIMEOUT", "API_RETRY_COUNT">>

IntNames ==
    <<"SLOW_MO", "RETRY_COUNT", "PARALLEL_WORKERS", "DEFAULT_TIMEOUT",
      "NAVIGATION_TIMEOUT", "API_TIMEOUT", "API_RETRY_COUNT">>

Unset == [set |-> FALSE, text |-> <<>>]
SetTo(t) == [set |-> TRUE, text |-> t]

\* The second argument of each os.getenv call.
DefaultText(name) ==
    CASE name = "BASE_URL"           -> <<"https://automationexercise.com">>
      [] name = "DOWNLOAD_DIR"       -> <<"downloads">>
      [] name = "LOG_DIR"            -> <<"logs">>
      [] name = "REPORT_DIR"         -> <<"reports">>
      [] name = "BROWSERS"           -> <<"chromium", ",", "firefox">>
      [] name = "HEADLESS"           -> <<"t", "r", "u", "e">>
      [] name = "SLOW_MO"            -> <<"0">>
      [] name = "RETRY_COUNT"        -> <<"2">>
      [] name = "PARALLEL_WORKERS"   -> <<"2">>
      [] name = "VIDEO_RECORDING"    -> <<"f", "a", "l", "s", "e">>
      [] name = "DEFAULT_TIMEOUT"    -> <<"3", "0", "0", "0", "0">>
      [] name = "NAVIGATION_TIMEOUT" -> <<"3", "0", "0", "0", "0">>
      [] name = "API_TIMEOUT"        -> <<"3", "0", "0", "0", "0">>
      [] name = "API_RETRY_COUNT"    -> <<"3">>

\* os.getenv(name, default): the value of the variable when it is set, the
\* empty string included; the default only when it is not set.
\* (GetenvDefaultOnly: the variable never found, as under a misspelt name.)
GetenvDefaultOnly(e, name) == DefaultText(name)
Getenv(e, name) == IF e[name].set THEN e[name].text ELSE DefaultText(name)

\* ---- int(text), base 10: blanks around the number are dropped, one sign
\* may lead, digits may be grouped by single underscores; anything else is a
\* ValueError.
Digits == <<"0", "1", "2", "3", "4", "5", "6", "7", "8", "9">>
IsDigit(c) == \E i \in DOMAIN Digits : Digits[i] = c
DigitVal(c) == (CHOOSE i \in DOMAIN Digits : Digits[i] = c) - 1
IsBlank(c) == c \in {" ", TAB, NL, CR}

RECURSIVE StripLeft(_)
StripLeft(t) == IF t # <<>> /\ IsBlank(Head(t)) THEN StripLeft(Tail(t)) ELSE t
RECURSIVE StripRight(_)
StripRight(t) ==
    IF t # <<>> /\ IsBlank(t[Len(t)]) THEN StripRight(SubSeq(t, 1, Len(t) - 1)) ELSE t
Strip(t) == StripRight(StripLeft(t))

\* The digits of the number, or a ValueError: the text after the sign must
\* start and end with a digit and hold no two underscores in a row.
WellGrouped(t) ==
    /\ t # <<>>
    /\ IsDigit(t[1])
    /\ IsDigit(t[Len(t)])
    /\ \A i \in DOMAIN t : IsDigit(t[i]) \/ t[i] = "_"
    /\ \A i \in 1..(Len(t) - 1) : ~(t[i] = "_" /\ t[i + 1] = "_")

RECURSIVE Magnitude(_, _)
Magnitude(t, acc) ==
    IF t = <<>> THEN acc
    ELSE IF Head(t) = "_" THEN Magnitude(Tail(t), acc)
    ELSE Magnitude(Tail(t), 10 * acc + DigitVal(Head(t)))

ValueError == [ok |-> FALSE, val |-> 0]
ParseInt(text) ==
    LET t == Strip(text)
        signed == t # <<>> /\ t[1] \in {"+", "-"}
        body == IF signed THEN Tail(t) ELSE t
    IN  IF ~WellGrouped(body) THEN ValueError
        ELSE [ok |-> TRUE,
              val |-> IF signed /\ t[1] = "-" THEN 0 - Magnitude(body, 0)
                      ELSE Magnitude(body, 0)]

\* ---- text.split(","): the pieces between the commas, empty ones included;
\* the empty text gives one empty piece.
RECURSIVE SplitComma(_, _, _)
SplitComma(t, piece, acc) ==
    IF t = <<>> THEN Append(acc, piece)
    ELSE IF Head(t) = "," THEN SplitComma(Tail(t), <<>>, Append(acc, piece))
    ELSE SplitComma(Tail(t), Append(piece, Head(t)), acc)

\* ---- text.lower() == "true"
LowerChar(c) ==
    CASE c = "T" -> "t" [] c = "R" -> "r" [] c = "U" -> "u" [] c = "E" -> "e"
      [] c = "F" -> "f" [] c = "A" -> "a" [] c = "L" -> "l" [] c = "S" -> "s"
      [] OTHER -> c
Lower(t) == [i \in DOMAIN t |-> LowerChar(t[i])]
IsTrue(t) == Lower(t) = <<"t", "r", "u", "e">>

\* ---- Path(text).resolve(): the components between the slashes, under the
\* working directory unless the text starts with a slash.
Cwd == << <<"work">> >>
RECURSIVE Components(_, _, _)
Components(t, piece, acc) ==
    LET close == IF piece = <<>> THEN acc ELSE Append(acc, piece)
    IN  IF t = <<>> THEN close
        ELSE IF Head(t) = "/" THEN Components(Tail(t), <<>>, close)
        ELSE Components(Tail(t), Append(piece, Head(t)), acc)
ResolvePath(t) ==
    IF t # <<>> /\ Head(t) = "/" THEN Components(t, <<>>, <<>>)
    ELSE Cwd \o Components(t, <<>>, <<>>)

\* ---- Settings.__init__: the fields in the order they are assigned; the
\* first int() that raises ends the construction.
NoFields == <<>>
NoSettings == [state |-> "none", raisedAt |-> "", fields |-> NoFields]

FirstBad(e) ==
    LET bad == {i \in DOMAIN IntNames : ~ParseInt(Getenv(e, IntNames[i])).ok}
    IN  IF bad = {} THEN 0 ELSE CHOOSE i \in bad : \A j \in bad : i <= j

NewSettings(e) ==
    IF FirstBad(e) # 0
      THEN [state |-> "raised", raisedAt |-> IntNames[FirstBad(e)], fields |-> NoFields]
      ELSE [state |-> "ok", raisedAt |-> "",
            fields |->
              [base_url |-> Getenv(e, "BASE_URL"),
               api_base_url |-> Getenv(e, "BASE_URL") \o <<"/api">>,
               download_dir |-> ResolvePath(Getenv(e, "DOWNLOAD_DIR")),
               log_dir |-> ResolvePath(Getenv(e, "LOG_DIR")),
               report_dir |-> ResolvePath(Getenv(e, "REPORT_DIR")),
               credentials_file |-> ResolvePath(<<"user_credentials.json">>),
               browsers |-> SplitComma(Getenv(e, "BROWSERS"), <<>>, <<>>),
               headless |-> IsTrue(Getenv(e, "HEADLESS")),
               slow_mo |-> ParseInt(Getenv(e, "SLOW_MO")).val,
               retry_count |-> ParseInt(Getenv(e, "RETRY_COUNT")).val,
               parallel_workers |-> ParseInt(Getenv(e, "PARALLEL_WORKERS")).val,
               video_recording |-> IsTrue(Getenv(e, "VIDEO_RECORDING")),
               default_timeout |-> ParseInt(Getenv(e, "DEFAULT_TIMEOUT")).val,
               navigation_timeout |-> ParseInt(Getenv(e, "NAVIGATION_TIMEOUT")).val,
               api_timeout |-> ParseInt(Getenv(e, "API_TIMEOUT")).val,
               api_retry_count |-> ParseInt(Getenv(e, "API_RETRY_COUNT")).val]]

\* ---- the environments of the model
WellFormedInts ==
    { <<"0">>, <<"7">>, <<"1", "5", "0", "0", "0">>, <<" ", "7", NL>>,
      <<"-", "1">>, <<"+", "5">>, <<"1", "_", "0">>, <<"0", "0", "7">> }
MalformedInts ==
    { <<>>, <<"a", "b", "c">>, <<"1", ".", "5">>, <<"0", "x", "1", "0">>,
      <<"1", "_", "_", "0">>, <<"_", "1">>, <<"7", " ", "m", "s">>, <<"-">> }

EnvTexts(name) ==
    CASE name = "BASE_URL" -> { <<"http://localhost:8080">>, <<>> }
      [] name \in {"DOWNLOAD_DIR", "LOG_DIR", "REPORT_DIR"} ->
            { <<"out">>, <<"out", "/", "artifacts">>, <<"/", "srv", "/", "data">>, <<>> }
      [] name = "BROWSERS" ->
            { <<"firefox">>, <<"webkit", ",", "chromium">>, <<>>, <<"chromium", ",">> }
      [] name \in {"HEADLESS", "VIDEO_RECORDING"} ->
            { <<"t", "r", "u", "e">>, <<"T", "R", "U", "E">>, <<"T", "r", "u", "e">>,
              <<"f", "a", "l", "s", "e">>, <<"1">>, <<>> }
      [] OTHER -> WellFormedInts \cup MalformedInts

NoEnv == [name \in Range(EnvNames) |-> Unset]

\* The environments with at most n variables set.
RECURSIVE EnvsUpTo(_)
EnvsUpTo(n) ==
    IF n = 0 THEN {NoEnv}
    ELSE LET fewer == EnvsUpTo(n - 1)
         IN  fewer \cup
             UNION { { [e EXCEPT ![name] = SetTo(t)] : t \in EnvTexts(name) }
                     : e \in fewer, name \in Range(EnvNames) }

\* ---- the file system: the paths that are directories, the paths that are
\* regular files.  Every ancestor of a path that exists is a directory.
Parent(path) == SubSeq(path, 1, Len(path) - 1)

\* path.mkdir(parents=True, exist_ok=True): nothing to do for a directory that
\* exists; else the missing ancestors are made first, then the directory.
\* (MkdirNoExistOk: exist_ok left at its default, so a directory that exists
\* is a FileExistsError.)
RECURSIVE Ancestors(_)
Ancestors(path) ==
    IF path = <<>> THEN {<<>>} ELSE {path} \cup Ancestors(Parent(path))
MkdirNoExistOk(dirs, path) ==
    IF path \in dirs THEN [ok |-> FALSE, dirs |-> dirs]
    ELSE [ok |-> TRUE, dirs |-> dirs \cup Ancestors(path)]
Mkdir(dirs, path) ==
    IF path \in dirs THEN [ok |-> TRUE, dirs |-> dirs]
    ELSE [ok |-> TRUE, dirs |-> dirs \cup Ancestors(path)]

\* Settings.ensure_directories(): the download directory, then the log
\* directory; a mkdir that raises ends the call.
EnsureResult(dirs, fields) ==
    LET first == Mkdir(dirs, fields.download_dir)
        second == Mkdir(first.dirs, fields.log_dir)
    IN  IF ~first.ok THEN [ok |-> FALSE, dirs |-> first.dirs]
        ELSE second

NoTree == [dirs |-> {}, files |-> {}]
NoCall == [before |-> NoTree, after |-> NoTree, raised |-> FALSE]

\* What the working directory may hold when the process starts.
InitialTrees ==
    { [dirs |-> Ancestors(Cwd), files |-> {}],
      [dirs |-> Ancestors(Cwd \o <<<<"downloads">>>>),
       files |-> {Cwd \o <<<<"downloads">>, <<"old.pdf">>>>}],
      [dirs |-> Ancestors(Cwd \o <<<<"downloads">>>>) \cup Ancestors(Cwd \o <<<<"logs">>>>)
                  \cup Ancestors(Cwd \o <<<<"out">>>>),
       files |-> {Cwd \o <<<<"logs">>, <<"run.log">>>>}] }

SettingsIdle ==
    /\ env = NoEnv
    /\ settings = NoSettings
    /\ fsDirs = {}
    /\ fsFiles = {}
    /\ ensureCalls = 0
    /\ lastCall = NoCall

\* ------------------------------------------- the createAccount scenario
\* The two API tests and the service they post to.  The service is remote:
\* what it answers is taken from its description, not from code.
ApiTests == {"test_register_user_and_prevent_duplicate", "test_duplicate_account_creation"}

\* generate_unique_email(): <prefix>_<8 hex digits>@<domain>; the digits are
\* drawn anew in every call and may repeat.
ApiEmails == { <<"tazeem_", "0", "@yopmail.com">>, <<"tazeem_", "1", "@yopmail.com">> }

\* get_test_user_details()["password"]
ApiPassword == <<"Password123">>

UserCreated == <<"User created!">>
EmailExists == <<"Email already exists", "!">>

NoResponse == [status |-> 0, code |-> 0, message |-> <<>>]

\* POST /api/createAccount: 201 "User created!" for an email not yet
\* registered, which is then registered; 400 "Email already exists!" for a
\* registered one, whatever the other fields; HTTP 200 in both cases.
\* (CreateAccountAgain: a service that creates the account again.)
CreateAccountAgain(reg, email) ==
    [resp |-> [status |-> 200, code |-> 201, message |-> UserCreated],
     reg |-> reg \cup {email}]
CreateAccount(reg, email) ==
    IF email \in reg
      THEN [resp |-> [status |-> 200, code |-> 400, message |-> EmailExists],
            reg |-> reg]
      ELSE [resp |-> [status |-> 200, code |-> 201, message |-> UserCreated],
            reg |-> reg \cup {email}]

\* What a test may get instead of the answer of the service: an answer of a
\* gateway in front of it, or a body that is not the one expected.
FaultResponses ==
    { [status |-> 503, code |-> 0, message |-> <<>>],
      [status |-> 200, code |-> 500, message |-> <<"Server error">>],
      [status |-> 200, code |-> 201, message |-> <<"User created">>],
      [status |-> 200, code |-> 400, message |-> <<"Bad request">>] }

\* `sub in text`
Contains(text, sub) ==
    \E i \in 1..(Len(text) - Len(sub) + 1) : SubSeq(text, i, i + Len(sub) - 1) = sub

\* The assertions on the first response: lines 34-37 of
\* test_api_create_account.py (message == "User created!"), lines 41-44 of
\* test_api_negative.py ("User created!" in message).
\* (FirstChecksStatusOnly: the assertion on the status code alone.)
FirstChecksStatusOnly(test, resp) == resp.status = 200
FirstChecks(test, resp) ==
    /\ resp.status = 200
    /\ resp.code = 201
    /\ IF test = "test_register_user_and_prevent_duplicate"
         THEN resp.message = UserCreated
         ELSE Contains(resp.message, UserCreated)

\* The assertions on the second response: lines 44-47, and lines 71-74.
DupChecks(test, resp) ==
    /\ resp.status = 200
    /\ resp.code = 400
    /\ IF test = "test_register_user_and_prevent_duplicate"
         THEN Contains(resp.message, <<"Email already exists">>)
         ELSE Contains(resp.message, EmailExists)

NoServed == [n |-> 0, email |-> <<>>, fields |-> "", known |-> FALSE,
             resp |-> NoResponse, before |-> {}, after |-> {}]

ApiIdle ==
    /\ registered = {}
    /\ apiPc = "idle"
    /\ apiTest = ""
    /\ apiEmail = <<>>
    /\ firstResp = NoResponse
    /\ dupResp = NoResponse
    /\ apiSaved = FALSE
    /\ fileAtStart = NoFile
    /\ served = NoServed
    /\ apiRuns = 0

\* ------------------------------------------------ several worker processes
\* The API registration test (the writer) and the UI test (the reader) of one
\* run.  Each test is run by one worker process; a worker runs its tests one
\* at a time and keeps its own instance of the session fixture; the workers
\* share the working directory, hence user_credentials.json.
WorkerTests == {"api", "ui"}
Workers == {"gw0", "gw1"}

\* The pair a previous run left in the file.
PreviousPair == << <<"a">>, <<EACUTE>> >>

\* open(path, "w") truncates; the text is written at offset 0 of whatever the
\* file holds when the buffer is flushed.
TruncatedFile == [exists |-> TRUE, bytes |-> <<>>, class |-> "truncated"]
Overlay(old, data) ==
    IF Len(old) > Len(data) THEN data \o SubSeq(old, Len(data) + 1, Len(old))
    ELSE data

WorkerIdle ==
    /\ owner = [t \in WorkerTests |-> "gw0"]
    /\ tpc = [t \in WorkerTests |-> "ready"]
    /\ fixtureCache = [w \in Workers |-> FALSE]
    /\ saveDone = FALSE
    /\ dirtied = FALSE
    /\ loadCtx = [afterSave |-> FALSE, intervened |-> FALSE]

WorkerInit ==
    /\ SessionInit
    /\ hasHtml = FALSE
    /\ platform \in {"posix", "windows"}
    /\ credFile \in {NoFile, StubFile(platform),
                     [exists |-> TRUE,
                      bytes |-> SavedBytes(platform, PreviousPair[1], PreviousPair[2]),
                      class |-> "pair"]}
    /\ lastSave = <<>>
    /\ loadResult = NoLoad
    /\ fileAtLoad = NoFile
    /\ fixtureRun = NoFixtureRun
    /\ owner \in {o \in [WorkerTests -> Workers] : o["api"] = "gw0"}
    /\ tpc = [t \in WorkerTests |-> "ready"]
    /\ fixtureCache = [w \in Workers |-> FALSE]
    /\ saveDone = FALSE
    /\ dirtied = FALSE
    /\ loadCtx = [afterSave |-> FALSE, intervened |-> FALSE]
    /\ SettingsIdle
    /\ ApiIdle

Running(t) == tpc[t] \notin {"ready", "done"}

\* A worker takes its next test; the test requests credentials_file, which
\* the worker runs unless it has its value already.
TestStart(t) ==
    /\ tpc[t] = "ready"
    /\ \A u \in WorkerTests : owner[u] = owner[t] => ~Running(u)
    /\ tpc' = [tpc EXCEPT ![t] = IF fixtureCache[owner[t]] THEN "body" ELSE "fx_check"]
    /\ UNCHANGED <<owner, fixtureCache, saveDone, dirtied, loadCtx>>
    /\ UNCHANGED <<platform, credFile, lastSave, loadResult, fileAtLoad>>
    /\ UNCHANGED outsideWorkers

\* credentials_file: `if not file_path.exists():`
FixtureCheck(t) ==
    /\ tpc[t] = "fx_check"
    /\ IF credFile.exists
         THEN /\ tpc' = [tpc EXCEPT ![t] = "body"]
              /\ fixtureCache' = [fixtureCache EXCEPT ![owner[t]] = TRUE]
         ELSE /\ tpc' = [tpc EXCEPT ![t] = "fx_open"]
              /\ UNCHANGED fixtureCache
    /\ UNCHANGED <<owner, saveDone, dirtied, loadCtx>>
    /\ UNCHANGED <<platform, credFile, lastSave, loadResult, fileAtLoad>>
    /\ UNCHANGED outsideWorkers

\* credentials_file: write_text opens the file for writing ...
FixtureOpen(t) ==
    /\ tpc[t] = "fx_open"
    /\ credFile' = TruncatedFile
    /\ dirtied' = saveDone
    /\ tpc' = [tpc EXCEPT ![t] = "fx_write"]
    /\ UNCHANGED <<owner, fixtureCache, saveDone, loadCtx>>
    /\ UNCHANGED <<platform, lastSave, loadResult, fileAtLoad>>
    /\ UNCHANGED outsideWorkers

\* ... and writes the stub; the fixture returns the path.
FixtureWrite(t) ==
    /\ tpc[t] = "fx_write"
    /\ credFile' = [exists |-> TRUE,
                    bytes |-> Overlay(credFile.bytes, StubFile(platform).bytes),
                    class |-> "stub"]
    /\ dirtied' = saveDone
    /\ fixtureCache' = [fixtureCache EXCEPT ![owner[t]] = TRUE]
    /\ tpc' = [tpc EXCEPT ![t] = "body"]
    /\ UNCHANGED <<owner, saveDone, loadCtx>>
    /\ UNCHANGED <<platform, lastSave, loadResult, fileAtLoad>>
    /\ UNCHANGED outsideWorkers

\* The API test up to its save: a fresh email, the first createAccount and its
\* three assertions.  When one of them fails the test ends without a save.
WriterRegister ==
    /\ tpc["api"] = "body"
    /\ \/ \E email \in Emails, password \in Passwords :
              /\ lastSave' = <<email, password>>
              /\ tpc' = [tpc EXCEPT !["api"] = "save_open"]
       \/ /\ tpc' = [tpc EXCEPT !["api"] = "done"]
          /\ UNCHANGED lastSave
    /\ UNCHANGED <<owner, fixtureCache, saveDone, dirtied, loadCtx>>
    /\ UNCHANGED <<platform, credFile, loadResult, fileAtLoad>>
    /\ UNCHANGED outsideWorkers

\* save_credentials: write_text opens the file for writing ...
WriterSaveOpen ==
    /\ tpc["api"] = "save_open"
    /\ credFile' = TruncatedFile
    /\ tpc' = [tpc EXCEPT !["api"] = "save_write"]
    /\ UNCHANGED <<owner, fixtureCache, saveDone, dirtied, loadCtx>>
    /\ UNCHANGED <<platform, lastSave, loadResult, fileAtLoad>>
    /\ UNCHANGED outsideWorkers

\* ... writes json.dumps(data, indent=2) and returns; the rest of the test
\* (the duplicate attempt) does not touch the file.
WriterSaveWrite ==
    /\ tpc["api"] = "save_write"
    /\ credFile' = [exists |-> TRUE,
                    bytes |-> Overlay(credFile.bytes,
                                      SavedBytes(platform, lastSave[1], lastSave[2])),
                    class |-> "saved"]
    /\ saveDone' = TRUE
    /\ dirtied' = FALSE
    /\ tpc' = [tpc EXCEPT !["api"] = "done"]
    /\ UNCHANGED <<owner, fixtureCache, loadCtx>>
    /\ UNCHANGED <<platform, lastSave, loadResult, fileAtLoad>>
    /\ UNCHANGED outsideWorkers

\* The UI test: load_credentials(credentials_file).
ReaderLoad ==
    /\ tpc["ui"] = "body"
    /\ loadResult' = LoadCredentials(credFile)
    /\ fileAtLoad' = credFile
    /\ loadCtx' = [afterSave |-> saveDone, intervened |-> dirtied]
    /\ tpc' = [tpc EXCEPT !["ui"] = "done"]
    /\ UNCHANGED <<owner, fixtureCache, saveDone, dirtied>>
    /\ UNCHANGED <<platform, credFile, lastSave>>
    /\ UNCHANGED outsideWorkers

WorkerNext ==
    \/ \E t \in WorkerTests : TestStart(t)
    \/ \E t \in WorkerTests : FixtureCheck(t)
    \/ \E t \in WorkerTests : FixtureOpen(t)
    \/ \E t \in WorkerTests : FixtureWrite(t)
    \/ WriterRegister
    \/ WriterSaveOpen
    \/ WriterSaveWrite
    \/ ReaderLoad

WorkerSpec == WorkerInit /\ [][WorkerNext]_vars

CredIdle ==
    /\ platform = "posix"
    /\ credFile = NoFile
    /\ lastSave = <<>>
    /\ loadResult = NoLoad
    /\ fileAtLoad = NoFile
    /\ fixtureRun = NoFixtureRun

CredInit ==
    /\ SessionInit
    /\ hasHtml = FALSE
    /\ platform \in {"posix", "windows"}
    /\ credFile \in InitialFiles
    /\ lastSave = <<>>
    /\ loadResult = NoLoad
    /\ fileAtLoad = NoFile
    /\ fixtureRun = NoFixtureRun
    /\ WorkerIdle
    /\ SettingsIdle
    /\ ApiIdle

\* credentials_file(): pytest runs a session fixture once and caches its value.
CredentialsFileFixture ==
    /\ fixtureRun.state = "none"
    /\ credFile' = CredentialsFile(platform, credFile)
    /\ fixtureRun' = [state |-> "ran", before |-> credFile, after |-> credFile']
    /\ loadResult' = NoLoad
    /\ fileAtLoad' = NoFile
    /\ UNCHANGED <<platform, lastSave>>
    /\ UNCHANGED outsideCred

\* save_credentials(path, email, password)
SaveCredentials ==
    /\ \E email \in Emails, password \in Passwords :
          /\ credFile' = [exists |-> TRUE,
                          bytes |-> SavedBytes(platform, email, password),
                          class |-> "saved"]
          /\ lastSave' = <<email, password>>
    /\ loadResult' = NoLoad
    /\ fileAtLoad' = NoFile
    /\ fixtureRun' = IF fixtureRun.state = "none" THEN fixtureRun ELSE FixtureRunPast
    /\ UNCHANGED platform
    /\ UNCHANGED outsideCred

\* load_credentials(path)
LoadCredentialsCall ==
    /\ loadResult.state = "none"
    /\ loadResult' = LoadCredentials(credFile)
    /\ fileAtLoad' = credFile
    /\ UNCHANGED <<platform, credFile, lastSave, fixtureRun>>
    /\ UNCHANGED outsideCred

CredNext ==
    \/ CredentialsFileFixture
    \/ SaveCredentials
    \/ LoadCredentialsCall

CredSpec == CredInit /\ [][CredNext]_vars

SettingsInit ==
    /\ SessionInit
    /\ hasHtml = FALSE
    /\ CredIdle
    /\ WorkerIdle
    /\ ApiIdle
    /\ env \in EnvsUpTo(MaxEnvSet)
    /\ settings = NoSettings
    /\ \E tree \in InitialTrees : fsDirs = tree.dirs /\ fsFiles = tree.files
    /\ ensureCalls = 0
    /\ lastCall = NoCall

\* settings = Settings()
Construct ==
    /\ settings.state = "none"
    /\ settings' = NewSettings(env)
    /\ UNCHANGED <<env, fsDirs, fsFiles, ensureCalls, lastCall>>
    /\ UNCHANGED outsideSettings

\* settings.ensure_directories(): at import, right after the construction, and
\* whenever someone calls it again.
EnsureDirectories ==
    /\ settings.state = "ok"
    /\ ensureCalls < MaxCalls
    /\ LET r == EnsureResult(fsDirs, settings.fields)
       IN  /\ fsDirs' = r.dirs
           /\ lastCall' = [before |-> [dirs |-> fsDirs, files |-> fsFiles],
                           after |-> [dirs |-> r.dirs, files |-> fsFiles],
                           raised |-> ~r.ok]
    /\ ensureCalls' = ensureCalls + 1
    /\ UNCHANGED <<env, settings, fsFiles>>
    /\ UNCHANGED outsideSettings

\* conftest.py context(): settings.download_dir / f"run_{os.getpid()}" is made
\* with mkdir(parents=True, exist_ok=True).
RunDir == settings.fields.download_dir \o << <<"run_1">> >>
MakeRunDir ==
    /\ settings.state = "ok"
    /\ RunDir \notin fsDirs
    /\ fsDirs' = Mkdir(fsDirs, RunDir).dirs
    /\ UNCHANGED <<env, settings, fsFiles, ensureCalls, lastCall>>
    /\ UNCHANGED outsideSettings

\* A test downloads a file into the directory of its run.
Download ==
    /\ settings.state = "ok"
    /\ RunDir \in fsDirs
    /\ RunDir \o << <<"invoice.txt">> >> \notin fsFiles
    /\ fsFiles' = fsFiles \cup {RunDir \o << <<"invoice.txt">> >>}
    /\ UNCHANGED <<env, settings, fsDirs, ensureCalls, lastCall>>
    /\ UNCHANGED outsideSettings

SettingsNext ==
    \/ Construct
    \/ EnsureDirectories
    \/ MakeRunDir
    \/ Download

SettingsSpec == SettingsInit /\ [][SettingsNext]_vars

ApiInit ==
    /\ SessionInit
    /\ hasHtml = FALSE
    /\ WorkerIdle
    /\ SettingsIdle
    /\ platform \in {"posix", "windows"}
    /\ credFile \in {NoFile, StubFile(platform),
                     [exists |-> TRUE,
                      bytes |-> SavedBytes(platform, PreviousPair[1], PreviousPair[2]),
                      class |-> "pair"]}
    /\ lastSave = <<>>
    /\ loadResult = NoLoad
    /\ fileAtLoad = NoFile
    /\ fixtureRun = NoFixtureRun
    /\ registered \in SUBSET ApiEmails
    /\ apiPc = "idle"
    /\ apiTest = ""
    /\ apiEmail = <<>>
    /\ firstResp = NoResponse
    /\ dupResp = NoResponse
    /\ apiSaved = FALSE
    /\ fileAtStart = NoFile
    /\ served = NoServed
    /\ apiRuns = 0

\* The service handles one createAccount request.
Serve(email, fields) ==
    LET r == CreateAccount(registered, email)
    IN  /\ registered' = r.reg
        /\ served' = [n |-> 1, email |-> email, fields |-> fields,
                      known |-> email \in registered, resp |-> r.resp,
                      before |-> registered, after |-> r.reg]

\* A test starts: test_register_user_and_prevent_duplicate requests
\* credentials_file, so the fixture has run; both draw an email.
ApiStart ==
    /\ apiPc = "idle"
    /\ apiRuns < MaxApiRuns
    /\ \E t \in ApiTests, e \in ApiEmails :
          /\ t = "test_register_user_and_prevent_duplicate" => fixtureRun.state # "none"
          /\ apiTest' = t
          /\ apiEmail' = e
    /\ apiRuns' = apiRuns + 1
    /\ apiPc' = "first_post"
    /\ firstResp' = NoResponse
    /\ dupResp' = NoResponse
    /\ apiSaved' = FALSE
    /\ fileAtStart' = credFile
    /\ UNCHANGED <<registered, served>>
    /\ UNCHANGED <<sessionVars, credVars, workerVars, settingsVars>>

\* requests.post(API_URL, data=payload): the answer of the service, or a fault
\* on the way; an exception of requests ends the test.
ApiFirstPost ==
    /\ apiPc = "first_post"
    /\ \/ /\ Serve(apiEmail, "own")
          /\ firstResp' = served'.resp
          /\ apiPc' = "first_checks"
       \/ /\ firstResp' \in FaultResponses
          /\ apiPc' = "first_checks"
          /\ UNCHANGED <<registered, served>>
       \/ /\ apiPc' = "ended_failed_first"
          /\ UNCHANGED <<registered, served, firstResp>>
    /\ UNCHANGED <<apiTest, apiEmail, dupResp, apiSaved, fileAtStart, apiRuns>>
    /\ UNCHANGED <<sessionVars, credVars, workerVars, settingsVars>>

\* The three assertions on the first response.
ApiFirstChecks ==
    /\ apiPc = "first_checks"
    /\ apiPc' = IF ~FirstChecks(apiTest, firstResp) THEN "ended_failed_first"
                ELSE IF apiTest = "test_register_user_and_prevent_duplicate" THEN "save"
                ELSE "dup_post"
    /\ UNCHANGED <<registered, served, apiTest, apiEmail, firstResp, dupResp,
                   apiSaved, fileAtStart, apiRuns>>
    /\ UNCHANGED <<sessionVars, credVars, workerVars, settingsVars>>

\* save_credentials(credentials_file, email, password)
ApiSave ==
    /\ apiPc = "save"
    /\ credFile' = [exists |-> TRUE,
                    bytes |-> SavedBytes(platform, apiEmail, ApiPassword),
                    class |-> "saved"]
    /\ lastSave' = <<apiEmail, ApiPassword>>
    /\ apiSaved' = TRUE
    /\ apiPc' = "dup_post"
    /\ fixtureRun' = FixtureRunPast
    /\ UNCHANGED <<registered, served, apiTest, apiEmail, firstResp, dupResp,
                   fileAtStart, apiRuns>>
    /\ UNCHANGED <<platform, loadResult, fileAtLoad>>
    /\ UNCHANGED <<sessionVars, workerVars, settingsVars>>

\* The second request: the same payload, or (test_api_negative.py) the same
\* email with other details.
ApiDupPost ==
    /\ apiPc = "dup_post"
    /\ \/ /\ Serve(apiEmail, IF apiTest = "test_duplicate_account_creation"
                               THEN "different" ELSE "same")
          /\ dupResp' = served'.resp
          /\ apiPc' = "dup_checks"
       \/ /\ dupResp' \in FaultResponses
          /\ apiPc' = "dup_checks"
          /\ UNCHANGED <<registered, served>>
       \/ /\ apiPc' = "ended_failed_dup"
          /\ UNCHANGED <<registered, served, dupResp>>
    /\ UNCHANGED <<apiTest, apiEmail, firstResp, apiSaved, fileAtStart, apiRuns>>
    /\ UNCHANGED <<sessionVars, credVars, workerVars, settingsVars>>

\* The assertions on the second response.
ApiDupChecks ==
    /\ apiPc = "dup_checks"
    /\ apiPc' = IF DupChecks(apiTest, dupResp) THEN "ended_passed" ELSE "ended_failed_dup"
    /\ UNCHANGED <<registered, served, apiTest, apiEmail, firstResp, dupResp,
                   apiSaved, fileAtStart, apiRuns>>
    /\ UNCHANGED <<sessionVars, credVars, workerVars, settingsVars>>

\* The runner goes on to the next test.
ApiNextTest ==
    /\ apiPc \in {"ended_passed", "ended_failed_first", "ended_failed_dup"}
    /\ apiPc' = "idle"
    /\ UNCHANGED <<registered, served, apiTest, apiEmail, firstResp, dupResp,
                   apiSaved, fileAtStart, apiRuns>>
    /\ UNCHANGED <<sessionVars, credVars, workerVars, settingsVars>>

\* Somebody else registers with the service while the tests run.
OtherClient ==
    /\ \E e \in ApiEmails : Serve(e, "other")
    /\ served.n = 0 \/ served.fields # "other"
    /\ UNCHANGED <<apiPc, apiTest, apiEmail, firstResp, dupResp, apiSaved,
                   fileAtStart, apiRuns>>
    /\ UNCHANGED <<sessionVars, credVars, workerVars, settingsVars>>

\* credentials_file is set up between tests, for the first test that asks.
ApiFixture ==
    /\ apiPc = "idle"
    /\ CredentialsFileFixture

ApiNext ==
    \/ ApiFixture
    \/ ApiStart
    \/ ApiFirstPost
    \/ ApiFirstChecks
    \/ ApiSave
    \/ ApiDupPost
    \/ ApiDupChecks
    \/ ApiNextTest
    \/ OtherClient

ApiSpec == ApiInit /\ [][ApiNext]_vars

Init ==
    /\ SessionInit
    /\ CredIdle
    /\ WorkerIdle
    /\ SettingsIdle
    /\ ApiIdle

Next ==
    \/ StartTest
    \/ BrowserFixture
    \/ ContextFixture
    \/ PageFixture
    \/ BodyAct
    \/ BodyEnd
    \/ Tick
    \/ PageTeardown
    \/ ContextTeardown
    \/ TeardownEnd
    \/ SessionFinish
    \/ HookEntry
    \/ HookLookup
    \/ HookScreenshot
    \/ HookSource
    \/ HookAttach
    \/ HookExcept
    \/ HookReturn

Spec == Init /\ [][Next]_vars

TypeOK ==
    /\ pc \in {"idle", "setup_browser", "setup_context", "setup_page", "call",
               "teardown", "makereport", "finished"}
    /\ hookPc \in {"none", "entry", "lookup", "screenshot", "source", "attach",
                   "except", "return"}
    /\ cur \in 0..NumTests
    /\ now \in 0..MaxClock
    /\ browserState \in {"none", "launched", "failed", "closed"}

\* ====================================================== the properties
IsPrefix(s, t) == Len(s) <= Len(t) /\ s = SubSeq(t, 1, Len(s))

\* The orders in which the fixture events of one test may come.
EventOrders ==
    { <<"context_opened", "page_opened", "page_closed", "context_closed">>,
      <<"context_opened", "context_closed">> }

\* C1: browser resources are nested.  A page is open only while the context it
\* was created in is open, and that context is the one of the test that owns
\* the page; a context is open only while the session browser is launched and
\* not closed; the fixture events of a test come in the order context opened,
\* page opened, page closed, context closed; the browser is closed only when
\* the session has ended, with every context closed.
C1_Nested ==
    /\ \A p \in pageOpen : pageCtx[p] \in ctxOpen
    /\ \A t \in Tests : pageOf[t] \in pageOpen => pageCtx[pageOf[t]] = ctxOf[t]
    /\ ctxOpen # {} => browserState = "launched"
    /\ \E o \in EventOrders : IsPrefix(events, o)
    /\ browserState = "closed" => pc = "finished" /\ ctxOpen = {} /\ pageOpen = {}
    /\ pc # "finished" => browserState # "closed"

\* C1 witness: the second test of a session has gone through the four events
\* on the browser the first test launched, which is still open.
C1_Witness ==
    /\ cur = 2
    /\ ctxOf[1] # 0
    /\ browserState = "launched"
    /\ events = <<"context_opened", "page_opened", "page_closed", "context_closed">>

\* C2: a test that used the page fixture ends with its page and its context
\* closed, whether its body passed or failed: when the teardown report is made,
\* and between tests, nothing of the test is open.
C2_Released ==
    /\ (pc = "makereport" /\ report.when = "teardown") =>
          ctxOf[cur] \notin ctxOpen /\ pageOf[cur] \notin pageOpen
    /\ pc \in {"idle", "finished"} => ctxOpen = {} /\ pageOpen = {}

\* C2 witness: the teardown report of a test whose body failed, with the page
\* and the context it had both closed.
C2_Witness ==
    /\ pc = "makereport"
    /\ report.when = "teardown"
    /\ callOutcome = "failed"
    /\ pageOf[cur] # 0
    /\ ctxOf[cur] # 0
    /\ ctxOpen = {}
    /\ pageOpen = {}

\* C3: every browser name of settings.browsers gets exactly one launched
\* instance in a session that ran a UI test and whose launch did not fail.
C3_OnePerBrowserName ==
    (pc = "finished" /\ browserState = "closed") =>
        \A b \in Range(SettingsBrowsers) : launches[b] = 1

ShotsOf(ws) == {i \in DOMAIN ws : ws[i].path.dir = "screenshots"}
SourcesOf(ws) == {i \in DOMAIN ws : ws[i].path.dir = "page_source"}
HasPageArg == \E i \in DOMAIN FuncArgs : FuncArgs[i].type = "Page"
FailedCall(r) == r.when = "call" /\ r.outcome = "failed"

\* C4 as claimed: a run of the hook on a failed call report of a test with a
\* Page fixture value writes exactly one screenshot and exactly one page-source
\* file, both named after the test; a run on a passed report writes none.
C4_Original ==
    (pc = "makereport" /\ hookPc = "return") =>
        /\ (FailedCall(reportBefore) /\ HasPageArg) =>
              /\ Cardinality(ShotsOf(hookWrites)) = 1
              /\ Cardinality(SourcesOf(hookWrites)) = 1
              /\ \A i \in DOMAIN hookWrites : hookWrites[i].path.test = item.name
        /\ reportBefore.outcome = "passed" => hookWrites = <<>>

\* C4 amended: the same when neither the screenshot step nor the page-source
\* step raised; when one did, the run wrote at most one file of each kind, still
\* named after the test; a run on a passed report writes none.
C4_Amended ==
    (pc = "makereport" /\ hookPc = "return") =>
        /\ (FailedCall(reportBefore) /\ HasPageArg) =>
              /\ hookRaisedAt \notin {"screenshot", "content", "source"} =>
                    /\ Cardinality(ShotsOf(hookWrites)) = 1
                    /\ Cardinality(SourcesOf(hookWrites)) = 1
                    /\ \A i \in DOMAIN hookWrites : hookWrites[i].whole
              /\ Cardinality(ShotsOf(hookWrites)) <= 1
              /\ Cardinality(SourcesOf(hookWrites)) <= 1
              /\ \A i \in DOMAIN hookWrites : hookWrites[i].path.test = item.name
        /\ reportBefore.outcome = "passed" => hookWrites = <<>>

\* C4 witness: the hook returns from a failed call report having written the
\* two files, without a raise.
C4_Witness ==
    /\ pc = "makereport"
    /\ hookPc = "return"
    /\ FailedCall(reportBefore)
    /\ hookRaisedAt = ""
    /\ Len(hookWrites) = 2
    /\ hookWrites[1].path \in files
    /\ hookWrites[2].path \in files

\* C5: the hook writes files and attaches extras only for a failed report of
\* the call phase of a test with a Page among its fixture values; the page
\* captured is the first Page of item.funcargs.
C5_OnlyFailedCallWithPage ==
    pc = "makereport" =>
        /\ (hookWrites # <<>> \/ report.extra # reportBefore.extra) =>
              /\ reportBefore.when = "call"
              /\ reportBefore.outcome = "failed"
              /\ HasPageArg
        /\ \A w \in Range(hookWrites) :
              \E i \in DOMAIN FuncArgs :
                 /\ FuncArgs[i].type = "Page"
                 /\ FuncArgs[i].id = w.of
                 /\ \A j \in 1..(i - 1) : FuncArgs[j].type # "Page"
        /\ (hookPc = "return" /\ reportBefore.when \in {"setup", "teardown"}) =>
              /\ hookWrites = <<>>
              /\ report = reportBefore

\* C5 witness: a failed call of a test with two Page values, the page fixture
\* second: both files are of the first one.
C5_Witness ==
    /\ pc = "makereport"
    /\ hookPc = "return"
    /\ item.kind = "ui"
    /\ item.extra = "before"
    /\ Len(hookWrites) = 2
    /\ hookWrites[1].of # pageOf[cur]

\* C6: a raise of any capture step is caught and logged, and the hook returns:
\* it never lets the exception out, and the report keeps its outcome.
C6_CaptureErrorsCaught ==
    /\ hookPc # "propagated"
    /\ hookPc = "except" => hookRaisedAt # ""
    /\ (hookPc = "return" /\ hookRaisedAt # "") =>
          /\ hookLog # <<>>
          /\ Last(hookLog) = "failed to capture"
          /\ report.outcome = reportBefore.outcome

\* C6 witness: the hook returns after the attaching step raised.
C6_Witness ==
    /\ hookPc = "return"
    /\ hookRaisedAt = "attach"
    /\ Len(hookWrites) = 2

\* C7: while the hook runs and when it returns, the report has the phase and
\* the outcome it came with.
C7_VerdictKept ==
    pc = "makereport" =>
        /\ report.when = reportBefore.when
        /\ report.outcome = reportBefore.outcome

\* C7 witness: the hook returns a report it has changed (extras attached).
C7_Witness ==
    /\ pc = "makereport"
    /\ hookPc = "return"
    /\ hookRaisedAt = ""
    /\ report # reportBefore

WithContext == {t \in Tests : ctxOf[t] # 0}
WithPage == {t \in Tests : pageOf[t] # 0}

\* C8: tests never share a context or a page.  Every test's context and page
\* are its own, a context holds one page at most, N tests that got a context
\* got N contexts, and the jar of a context holds only what its test stored.
C8_Isolated ==
    /\ \A t, u \in WithContext : t # u => ctxOf[t] # ctxOf[u]
    /\ \A t, u \in WithPage : t # u => pageOf[t] # pageOf[u]
    /\ \A t \in WithPage : pageCtx[pageOf[t]] = ctxOf[t]
    /\ \A p, q \in DOMAIN pageCtx : p # q => pageCtx[p] # pageCtx[q]
    /\ Cardinality({ctxOf[t] : t \in WithContext}) = Cardinality(WithContext)
    /\ \A c \in DOMAIN cookies : \A t \in cookies[c] : ctxOf[t] = c
    /\ \A t \in WithContext : t # cur => ctxOf[t] \notin ctxOpen

\* C8 witness: two tests of one session each stored state, in two jars.
C8_Witness ==
    /\ ctxOf[1] # 0
    /\ ctxOf[2] # 0
    /\ cookies[ctxOf[1]] = {1}
    /\ cookies[ctxOf[2]] = {2}

\* C9: a load after a save returns the pair of the last save, whatever the
\* file held before the save; and the saved file is an object of exactly the
\* two keys email and password.
C9_RoundTrip ==
    /\ (lastSave # <<>> /\ loadResult.state # "none") =>
          /\ loadResult.state = "ok"
          /\ loadResult.pair = <<StrVal(lastSave[1]), StrVal(lastSave[2])>>
    /\ lastSave # <<>> =>
          LET raw == JsonLoads(ReadText(credFile.bytes))
          IN  /\ raw.ok
              /\ raw.val.kind = "obj"
              /\ [i \in DOMAIN raw.val.members |-> raw.val.members[i].key]
                    = <<EmailKey, PasswordKey>>

\* C9 witness: on Windows, a pair made of a quote and a backslash came back
\* from the file.
C9_Witness ==
    /\ platform = "windows"
    /\ lastSave = << <<QUOTE>>, <<BSLASH>> >>
    /\ loadResult.state = "ok"

C11_FixtureEnsuresFile ==
    /\ fixtureRun.state # "none" => credFile.exists
    /\ fixtureRun.state = "ran" =>
          /\ credFile = fixtureRun.after
          /\ ~fixtureRun.before.exists =>
                LoadCredentials(credFile) = [state |-> "ok", pair |-> <<StrVal(<<>>), StrVal(<<>>)>>]
          /\ fixtureRun.before.exists => credFile = fixtureRun.before

\* The fixture found no file, and a load_credentials that followed it read the stub.
C11_Witness ==
    /\ fixtureRun.state = "ran"
    /\ ~fixtureRun.before.exists
    /\ loadResult = [state |-> "ok", pair |-> <<StrVal(<<>>), StrVal(<<>>)>>]
    /\ fileAtLoad = fixtureRun.after

\* The fixture found a file holding a pair and left it.
C11_WitnessKept ==
    /\ fixtureRun.state = "ran"
    /\ fixtureRun.before.class = "pair"
    /\ credFile = fixtureRun.before

\* C12: nothing orders the writer's save and the reader's load but the order
\* the tests run in.  A load that comes after the save of this run returned,
\* with no write to the file in between, returns exactly the saved pair; any
\* other load returns that pair, the pair of the stub, the pair a previous run
\* left, or fails on a file that is absent or not whole.
StubPair == <<StrVal(<<>>), StrVal(<<>>)>>
PairVal(p) == <<StrVal(p[1]), StrVal(p[2])>>
C12_HandoffByOrdering ==
    loadResult.state # "none" =>
        /\ (loadCtx.afterSave /\ ~loadCtx.intervened) =>
              /\ loadResult.state = "ok"
              /\ loadResult.pair = PairVal(lastSave)
        /\ loadResult.state = "ok" =>
              \/ loadCtx.afterSave /\ loadResult.pair = PairVal(lastSave)
              \/ loadResult.pair = StubPair
              \/ loadResult.pair = PairVal(PreviousPair)

\* Two workers: the writer saved a pair in this run, and the reader holds the
\* pair of a previous run.
C12_Witness ==
    /\ owner["ui"] # owner["api"]
    /\ tpc = [t \in WorkerTests |-> "done"]
    /\ saveDone
    /\ loadResult.state = "ok"
    /\ loadResult.pair = PairVal(PreviousPair)
    /\ loadResult.pair # PairVal(lastSave)

\* One worker, the tests out of order: the reader holds the stub's pair.
C12_WitnessOutOfOrder ==
    /\ owner["ui"] = owner["api"]
    /\ tpc = [t \in WorkerTests |-> "done"]
    /\ saveDone
    /\ loadResult.state = "ok"
    /\ loadResult.pair = StubPair
    /\ loadResult.pair # PairVal(lastSave)

\* The save came first, and the reader holds the writer's pair.
C12_WitnessOrdered ==
    /\ loadCtx.afterSave
    /\ ~loadCtx.intervened
    /\ loadResult.state = "ok"
    /\ lastSave = << <<QUOTE>>, <<BSLASH>> >>

\* The stub of the reader's worker replaced the pair the writer had saved.
C12_WitnessStubOverSave ==
    /\ loadCtx.afterSave
    /\ loadCtx.intervened
    /\ loadResult.state = "ok"
    /\ loadResult.pair = StubPair
    /\ lastSave = << <<QUOTE>>, <<BSLASH>> >>

\* The reader found the file opened for writing and not yet written.
C12_WitnessNotWhole ==
    /\ loadResult.state = "error"
    /\ fileAtLoad.class = "truncated"

\* C13: a failed launch is final.  Once the launch has failed, the session has
\* made exactly one launch attempt, has no context and no page, open or
\* closed; a test that requests the browser gets a failed setup report, never
\* reaches the context or page fixture, and its body does not run.
C13_LaunchFailsFast ==
    /\ browserErrors > 0 => browserState = "failed"
    /\ browserState = "failed" =>
          /\ launches[BrowserNameParam] = 1
          /\ \A b \in Range(SettingsBrowsers) : b # BrowserNameParam => launches[b] = 0
          /\ ctxCount = 0 /\ pageCount = 0
          /\ ctxOpen = {} /\ pageOpen = {}
          /\ item.kind = "ui" =>
                /\ pc \in {"setup_browser", "makereport", "teardown"}
                /\ callOutcome = "none"
                /\ events = <<>>
                /\ report.when \in {"none", "setup", "teardown"}
                /\ report.when = "setup" => report.outcome = "failed"

\* The launch failed for the first test; the second test requested the browser
\* too and got the same error, with one launch attempt made in all.
C13_Witness ==
    /\ browserState = "failed"
    /\ browserErrors = 2
    /\ launches[BrowserNameParam] = 1
    /\ pc = "makereport"
    /\ report.when = "setup"
    /\ report.outcome = "failed"

\* C14: constructing Settings never raises, whatever the environment holds: an
\* unset variable gets its default and a malformed value lets the
\* construction complete.
C14_ConstructNeverRaises ==
    settings.state # "raised"

\* C15: with no variable set the fields have the documented defaults; a
\* variable that is not set leaves its field at the default, and a variable
\* set to a well-formed value gives its field that value.
ExpectedInt(text) ==
    CASE text = <<"0">> -> 0
      [] text = <<"2">> -> 2
      [] text = <<"3">> -> 3
      [] text = <<"7">> -> 7
      [] text = <<"3", "0", "0", "0", "0">> -> 30000
      [] text = <<"1", "5", "0", "0", "0">> -> 15000
      [] text = <<" ", "7", NL>> -> 7
      [] text = <<"-", "1">> -> 0 - 1
      [] text = <<"+", "5">> -> 5
      [] text = <<"1", "_", "0">> -> 10
      [] text = <<"0", "0", "7">> -> 7

ExpectedBrowsers(text) ==
    CASE text = <<"chromium", ",", "firefox">> -> << <<"chromium">>, <<"firefox">> >>
      [] text = <<"firefox">> -> << <<"firefox">> >>
      [] text = <<"webkit", ",", "chromium">> -> << <<"webkit">>, <<"chromium">> >>

IntField(f, name) ==
    CASE name = "SLOW_MO" -> f.slow_mo
      [] name = "RETRY_COUNT" -> f.retry_count
      [] name = "PARALLEL_WORKERS" -> f.parallel_workers
      [] name = "DEFAULT_TIMEOUT" -> f.default_timeout
      [] name = "NAVIGATION_TIMEOUT" -> f.navigation_timeout
      [] name = "API_TIMEOUT" -> f.api_timeout
      [] name = "API_RETRY_COUNT" -> f.api_retry_count

C15_DefaultsAndOverrides ==
    settings.state = "ok" =>
        LET f == settings.fields
        IN  /\ env = NoEnv =>
                  /\ f.base_url = <<"https://automationexercise.com">>
                  /\ f.default_timeout = 30000
                  /\ f.navigation_timeout = 30000
                  /\ f.api_timeout = 30000
                  /\ f.browsers = << <<"chromium">>, <<"firefox">> >>
                  /\ f.retry_count = 2
            /\ \A name \in Range(IntNames) :
                  /\ ~env[name].set => IntField(f, name) = ExpectedInt(DefaultText(name))
                  /\ (env[name].set /\ env[name].text \in WellFormedInts) =>
                        IntField(f, name) = ExpectedInt(env[name].text)
            /\ ~env["BASE_URL"].set => f.base_url = <<"https://automationexercise.com">>
            /\ (env["BASE_URL"].set /\ env["BASE_URL"].text # <<>>) =>
                  f.base_url = env["BASE_URL"].text
            /\ ~env["BROWSERS"].set => f.browsers = << <<"chromium">>, <<"firefox">> >>
            /\ env["BROWSERS"] \in {SetTo(<<"firefox">>), SetTo(<<"webkit", ",", "chromium">>)} =>
                  f.browsers = ExpectedBrowsers(env["BROWSERS"].text)
            /\ ~env["DOWNLOAD_DIR"].set => f.download_dir = << <<"work">>, <<"downloads">> >>
            /\ env["DOWNLOAD_DIR"] = SetTo(<<"out", "/", "artifacts">>) =>
                  f.download_dir = << <<"work">>, <<"out">>, <<"artifacts">> >>
            /\ env["LOG_DIR"] = SetTo(<<"/", "srv", "/", "data">>) =>
                  f.log_dir = << <<"srv">>, <<"data">> >>
            /\ ~env["HEADLESS"].set => f.headless
            /\ env["HEADLESS"] = SetTo(<<"f", "a", "l", "s", "e">>) => ~f.headless
            /\ ~env["VIDEO_RECORDING"].set => ~f.video_recording
            /\ env["VIDEO_RECORDING"] = SetTo(<<"T", "R", "U", "E">>) => f.video_recording

\* RETRY_COUNT is set to a number written with blanks around it, and
\* retry_count holds the number while the other fields hold their defaults.
C15_Witness ==
    /\ settings.state = "ok"
    /\ env["RETRY_COUNT"] = SetTo(<<" ", "7", NL>>)
    /\ settings.fields.retry_count = 7
    /\ settings.fields.default_timeout = 30000

\* No variable is set and the object holds the defaults.
C15_WitnessDefaults ==
    /\ settings.state = "ok"
    /\ env = NoEnv
    /\ settings.fields.retry_count = 2

\* C16: ensure_directories is idempotent.  After a call the download and the
\* log directory exist; the first call adds directories and nothing else; a
\* further call returns without error and leaves every directory and every
\* file as it found them.
TreeNow == [dirs |-> fsDirs, files |-> fsFiles]
CaptureDone ==
    /\ pc = "makereport"
    /\ hookPc = "return"
    /\ hookRaisedAt = ""
    /\ reportBefore.when = "call"
    /\ reportBefore.outcome = "failed"
    /\ HasPageArg

C17_AttachTwoExtras ==
    CaptureDone =>
        /\ Len(hookWrites) = 2
        /\ hookWrites[1].path = ScreenshotPath(item.name, hookTs)
        /\ hookWrites[2].path = SourcePath(item.name, hookTs)
        /\ \A i \in 1..2 : hookWrites[i].whole /\ hookWrites[i].path \in files
        /\ hasHtml =>
              /\ report.hasExtra
              /\ Len(report.extra) = Len(reportBefore.extra) + 2
              /\ SubSeq(report.extra, 1, Len(reportBefore.extra)) = reportBefore.extra
              /\ report.extra[Len(reportBefore.extra) + 1]
                    = [kind |-> "image", path |-> hookWrites[1].path]
              /\ report.extra[Len(reportBefore.extra) + 2]
                    = [kind |-> "html", path |-> hookWrites[2].path]
        /\ ~hasHtml => report = reportBefore

\* With _html: the report had an extra of another plugin, and now has three.
C17_Witness ==
    /\ CaptureDone
    /\ hasHtml
    /\ reportBefore.extra = <<PluginExtra>>
    /\ Len(report.extra) = 3

\* Without _html: both files are written and the report has no extras.
C17_WitnessNoHtml ==
    /\ CaptureDone
    /\ ~hasHtml
    /\ Len(hookWrites) = 2
    /\ report.extra = <<>>

\* C18: the service answers a createAccount for an email it does not know yet
\* with HTTP 200, responseCode 201 and "User created!", and knows the email
\* from then on; it answers every createAccount for an email it knows, with
\* the same or with other details, with HTTP 200, responseCode 400 and a
\* message that contains "Email already exists", and registers nothing.  So
\* the second request of a test whose first request was accepted is refused.
C18_CreateThenDuplicate ==
    /\ served.n > 0 =>
          /\ served.after \subseteq registered
          /\ ~served.known =>
                /\ served.resp = [status |-> 200, code |-> 201, message |-> UserCreated]
                /\ served.after = served.before \cup {served.email}
          /\ served.known =>
                /\ served.resp.status = 200
                /\ served.resp.code = 400
                /\ Contains(served.resp.message, <<"Email already exists">>)
                /\ served.after = served.before
    /\ (apiPc = "dup_checks" /\ dupResp \notin FaultResponses) =>
          /\ apiEmail \in registered
          /\ dupResp.status = 200
          /\ dupResp.code = 400
          /\ Contains(dupResp.message, <<"Email already exists">>)
    /\ apiPc = "ended_passed" => apiEmail \in registered

\* test_duplicate_account_creation: the email was accepted, and the request
\* with the same email and other details was refused.
C18_Witness ==
    /\ apiTest = "test_duplicate_account_creation"
    /\ apiPc = "dup_checks"
    /\ firstResp.code = 201
    /\ served.fields = "different"
    /\ served.known
    /\ dupResp = served.resp
    /\ dupResp.code = 400

\* C19: test_register_user_and_prevent_duplicate calls save_credentials only
\* when the first response had status 200, responseCode 201 and the message
\* "User created!", and before it sends the second request; a test that
\* ended on one of the first assertions left the file as it found it; the
\* saved pair stays in the file whatever the second response is.
C19_SaveOnlyAfterSuccess ==
    /\ apiSaved =>
          /\ apiTest = "test_register_user_and_prevent_duplicate"
          /\ firstResp.status = 200
          /\ firstResp.code = 201
          /\ firstResp.message = UserCreated
          /\ credFile.exists
          /\ credFile.bytes = WriteText(platform, JsonDumpsIndent(apiEmail, ApiPassword))
    /\ (apiTest = "test_register_user_and_prevent_duplicate"
          /\ (apiPc \in {"dup_post", "dup_checks", "ended_passed", "ended_failed_dup"}
                \/ dupResp # NoResponse)) => apiSaved
    /\ apiPc \in {"first_post", "first_checks", "save", "ended_failed_first"} =>
          /\ ~apiSaved
          /\ dupResp = NoResponse
          /\ credFile = fileAtStart

\* The second response failed its assertions, and the pair saved before is in
\* the file.
C19_Witness ==
    /\ apiTest = "test_register_user_and_prevent_duplicate"
    /\ apiPc = "ended_failed_dup"
    /\ dupResp \in FaultResponses
    /\ apiSaved
    /\ fileAtStart.class = "pair"
    /\ LoadCredentials(credFile) = [state |-> "ok", pair |-> PairVal(<<apiEmail, ApiPassword>>)]

\* The first response said the email exists: the test ended without a save,
\* the file holds what it held.
C19_WitnessNoSave ==
    /\ apiTest = "test_register_user_and_prevent_duplicate"
    /\ apiPc = "ended_failed_first"
    /\ firstResp.code = 400
    /\ credFile = fileAtStart
    /\ credFile.class = "pair"

\* C20: release holds when setup or teardown fails.  A test whose context was
\* opened and whose page could not be created gets a failed setup report, its
\* body does not run, and its context is closed in teardown; a test whose
\* page.close() raised has its context, and the page with it, closed when
\* teardown is reported; no context is open once a test has ended.
PageSetupFailed ==
    /\ item.kind = "ui"
    /\ ctxOf[cur] # 0
    /\ pageOf[cur] = 0
    /\ pc # "setup_page"

C20_ReleasedOnFailure ==
    /\ PageSetupFailed =>
          /\ pc \in {"makereport", "teardown"}
          /\ callOutcome = "none"
          /\ report.when # "call"
          /\ report.when = "setup" => report.outcome = "failed"
          /\ report.when = "teardown" => ctxOf[cur] \notin ctxOpen
          /\ "page_opened" \notin Range(events)
    /\ (tdRaised /\ pc = "makereport" /\ report.when = "teardown") =>
          /\ ctxOf[cur] \notin ctxOpen
          /\ pageOf[cur] \notin pageOpen
          /\ Last(events) = "context_closed"
    /\ (tdRaised /\ pc = "teardown" /\ finalizers = <<>>) => ctxOf[cur] \notin ctxOpen
    /\ pc \in {"idle", "finished"} => ctxOpen = {}
    /\ pc \in {"setup_browser", "setup_context"} => ctxOpen = {}

\* The teardown report of a test whose page could not be created: the context
\* it had opened is closed.
C20_Witness ==
    /\ PageSetupFailed
    /\ pc = "makereport"
    /\ report.when = "teardown"
    /\ events = <<"context_opened", "context_closed">>
    /\ ctxOpen = {}

\* The teardown report of a test whose page.close() raised and left the page
\* open: closing the context closed both.
C20_WitnessCloseRaised ==
    /\ tdRaised
    /\ pc = "makereport"
    /\ report.when = "teardown"
    /\ pageOf[cur] # 0
    /\ events = <<"context_opened", "page_opened", "page_closed", "context_closed">>
    /\ ctxOpen = {}
    /\ pageOpen = {}

\* C21: the fixture's check and its stub write as one step.  A file that
\* holds a non-empty pair written by save_credentials is not opened for
\* writing by credentials_file and not replaced by the stub, and no step of
\* save_credentials falls between the existence check of a fixture run and
\* the end of its write.
HoldsSavedPair ==
    /\ saveDone
    /\ lastSave[1] # <<>>
    /\ lastSave[2] # <<>>
    /\ credFile = [exists |-> TRUE,
                   bytes |-> SavedBytes(platform, lastSave[1], lastSave[2]),
                   class |-> "saved"]

InsideFixture == \E t \in WorkerTests : tpc[t] \in {"fx_open", "fx_write"}

SaveStep ==
    /\ tpc["api"] \in {"save_open", "save_write"}
    /\ tpc'["api"] # tpc["api"]

C21_StubWriteAtomic ==
    [][/\ HoldsSavedPair => credFile' = credFile
       /\ InsideFixture => ~SaveStep]_vars

\* Two workers: the reader's worker found no file, the writer saved a
\* non-empty pair, and the reader's worker then wrote the stub over it.
C21_WitnessStubOverSave ==
    /\ owner["ui"] # owner["api"]
    /\ saveDone
    /\ lastSave[1] # <<>>
    /\ lastSave[2] # <<>>
    /\ credFile = StubFile(platform)
    /\ tpc["ui"] = "body"

\* C22: the order of the steps of one run of the hook.  The first file a run
\* writes is the screenshot and the second the page source; the report gets
\* extras from the hook only after both files were written whole, and both
\* are then on disk under the name of the test and the one timestamp of the
\* run, and every extra the hook added refers to one of them.
HookExtras ==
    SubSeq(report.extra, Len(reportBefore.extra) + 1, Len(report.extra))

StepsInOrder ==
    /\ Len(hookWrites) <= 2
    /\ Len(hookWrites) >= 1 =>
          /\ hookWrites[1].path = ScreenshotPath(item.name, hookTs)
          /\ hookWrites[1].whole
          /\ hookPc \notin {"entry", "lookup", "screenshot"}
    /\ Len(hookWrites) = 2 =>
          /\ hookWrites[2].path = SourcePath(item.name, hookTs)
          /\ hookPc \notin {"entry", "lookup", "screenshot", "source"}
    /\ IsPrefix(reportBefore.extra, report.extra)
    /\ HookExtras # <<>> =>
          /\ hookPc \in {"except", "return"}
          /\ Len(hookWrites) = 2
          /\ \A i \in 1..2 : hookWrites[i].whole /\ hookWrites[i].path \in files
          /\ hookWrites[1].path.test = hookWrites[2].path.test
          /\ hookWrites[1].path.ts = hookWrites[2].path.ts
          /\ \A e \in Range(HookExtras) :
                \/ e = [kind |-> "image", path |-> hookWrites[1].path]
                \/ e = [kind |-> "html", path |-> hookWrites[2].path]

ScreenshotKept ==
    /\ Len(hookWrites) >= 1
    /\ hookWrites[1].path = ScreenshotPath(item.name, hookTs)
    /\ hookWrites[1].whole
    /\ hookWrites[1].path \in files
    /\ report = reportBefore

\* C22 as claimed: as above, and when page.content() or write_text raised
\* after the screenshot was taken, the screenshot is on disk, the run wrote
\* no page-source file, and the report is as the hook found it.
C22_Original ==
    pc = "makereport" =>
        /\ StepsInOrder
        /\ hookRaisedAt \in {"content", "source"} =>
              /\ ScreenshotKept
              /\ SourcesOf(hookWrites) = {}

\* C22 amended: as above, and when page.content() raised the run wrote no
\* page-source file; when write_text raised the run wrote none or one that
\* is not whole; in both cases the screenshot is on disk and the report is as
\* the hook found it.
C22_Amended ==
    pc = "makereport" =>
        /\ StepsInOrder
        /\ hookRaisedAt = "content" =>
              /\ ScreenshotKept
              /\ SourcesOf(hookWrites) = {}
        /\ hookRaisedAt = "source" =>
              /\ ScreenshotKept
              /\ \A i \in SourcesOf(hookWrites) :
                    /\ i = 2
                    /\ ~hookWrites[i].whole
                    /\ hookWrites[i].path = SourcePath(item.name, hookTs)

\* The report of a failed call carries the two extras of the hook, after
\* the extra of another plugin, and both files are on disk.
C22_Witness ==
    /\ pc = "makereport"
    /\ hookPc = "return"
    /\ Len(HookExtras) = 2
    /\ reportBefore.extra # <<>>
    /\ hookWrites[1].path \in files
    /\ hookWrites[2].path \in files

\* page.content() raised: the screenshot alone was written.
C22_WitnessContentRaised ==
    /\ pc = "makereport"
    /\ hookPc = "return"
    /\ hookRaisedAt = "content"
    /\ Len(hookWrites) = 1
    /\ hasHtml

\* write_text raised after it had opened the file: the screenshot and a
\* page-source file that is not whole are on disk, and nothing is attached.
C22_WitnessWriteRaised ==
    /\ pc = "makereport"
    /\ hookPc = "return"
    /\ hookRaisedAt = "source"
    /\ Len(hookWrites) = 2
    /\ ~hookWrites[2].whole
    /\ hookWrites[2].path \in files
    /\ hasHtml
    /\ report = reportBefore

====
